---- MODULE Spec2Model ----
(***************************************************************************)
(* The back-testing engine of services/simulation.ts (runSimulation and    *)
(* its helpers evaluateCondition, shouldBuy, shouldSell).                  *)
(*                                                                         *)
(* Numbers.  Prices, cash and quantities are integers; a percentage        *)
(* (priceChange, stop-loss / take-profit, pnlPercentage) is kept as an     *)
(* exact fraction [num, den] with den > 0 and compared by cross            *)
(* multiplication, so that no rounding is introduced by the model.         *)
(* Dates are day ordinals: the code compares 'yyyy-MM-dd' strings, whose   *)
(* lexicographic order is the chronological one.                           *)
(* An optional field (exitDate?, pnl?, conditions?) is a sequence of       *)
(* length at most one: None is undefined, Some(x) is the value x.          *)
(***************************************************************************)
EXTENDS Integers, Sequences, FiniteSets, TLC

\* ---------------------------------------------------------------- bounds
\* Number of calendar days a price series may cover.
MaxDays == 3
\* Largest simulationConfig.maxPositions enumerated.
MaxPositionsBound == 2
\* simulationConfig.initialCapital of the enumerated strategies.
InitialCapital == 4

\* ------------------------------------------------------- optional values
None == <<>>
Some(x) == <<x>>
IsSome(o) == o # <<>>
Val(o) == o[1]
\* A field holding a truthy value that is not an array (an object, a
\* string): told apart from None and from Some(x) by its length.
NotArray == << "object", "notArray" >>
\* Array.isArray on the content of an optional field.
IsArray(o) == Len(o) = 1

\* ------------------------------------------------------------ price data
\* The symbols the enumerated strategies are configured with.
SymbolSet == {"A", "B"}
\* Closing prices and volumes a bar may carry (open, high and low are never
\* read by the simulation and are left out of the bar).
Closes == {2, 3}
Volumes == {10}
Days == 1 .. MaxDays

\* PriceData (types): the fields of a bar the simulation reads.
PriceData(d, c, v) == [date |-> d, close |-> c, volume |-> v]

\* What getHistoricalData may return for one symbol: one bar per trading
\* day it has data for, ascending by date.  runSimulation depends on the
\* provider through the returned series only, and handles a symbol that has
\* no bar on a day of the global index, so the series of different symbols
\* need not cover the same days.  f[d] = <<0, 0>> means the symbol has no
\* bar on day d; closes are strictly positive.
SeriesOf(f) ==
    SelectSeq([d \in Days |-> PriceData(d, f[d][1], f[d][2])],
              LAMBDA b : b.close # 0)
getHistoricalData ==
    { SeriesOf(f) : f \in [Days -> {<<0, 0>>} \cup (Closes \X Volumes)] }

\* ------------------------------------------------------------ conditions
\* A condition is a loosely typed record; a field the record does not have
\* is "undefined" (strings) or None (value).
Cond(t, ind, op, v) == [type |-> t, indicator |-> ind, operator |-> op, value |-> v]
IndicatorRule(ind, op, v) == Cond("undefined", ind, op, Some(v))
ExitRule(t, v) == Cond(t, "undefined", "undefined", Some(v))
\* A null (or undefined) entry of a conditions array.
Null == Cond("null", "null", "null", None)

\* ---------------------------------------------------- evaluateCondition
\* The operator switch, on the fraction actual = a.num / a.den and value.
Compare(op, a, value) ==
    CASE op = ">"  -> a.num > value * a.den
      [] op = "<"  -> a.num < value * a.den
      [] op = ">=" -> a.num >= value * a.den
      [] op = "<=" -> a.num <= value * a.den
      [] op = "==" -> a.num = value * a.den
      [] OTHER     -> FALSE

\* priceData is a bar, previousPriceData an optional bar.
evaluateCondition(condition, priceData, previousPriceData) ==
    IF condition = Null
    THEN FALSE
    ELSE IF condition.indicator = "undefined" \/ condition.operator = "undefined"
            \/ condition.value = None
    THEN FALSE
    ELSE CASE condition.indicator = "price" ->
                Compare(condition.operator,
                        [num |-> priceData.close, den |-> 1],
                        Val(condition.value))
           [] condition.indicator = "volume" ->
                Compare(condition.operator,
                        [num |-> priceData.volume, den |-> 1],
                        Val(condition.value))
           [] condition.indicator = "priceChange" ->
                IF previousPriceData = None
                THEN FALSE
                ELSE Compare(condition.operator,
                             [num |-> (priceData.close - Val(previousPriceData).close) * 100,
                              den |-> Val(previousPriceData).close],
                             Val(condition.value))
           [] OTHER -> FALSE

\* ------------------------------------------------------------- shouldBuy
\* shouldBuy without the length test: every() of an empty array is true.
shouldBuy_EmptyPasses(buyConfig, priceData, previousPriceData) ==
    IF buyConfig.conditions = None \/ ~ IsArray(buyConfig.conditions)
    THEN FALSE
    ELSE \A n \in 1 .. Len(Val(buyConfig.conditions)) :
            evaluateCondition(Val(buyConfig.conditions)[n], priceData, previousPriceData)

\* if (!conditions || !Array.isArray(conditions) || conditions.length === 0)
\* return false; else conditions.every(...)
shouldBuy(buyConfig, priceData, previousPriceData) ==
    IF buyConfig.conditions = None
    THEN FALSE
    ELSE IF ~ IsArray(buyConfig.conditions)
    THEN FALSE
    ELSE IF Len(Val(buyConfig.conditions)) = 0
    THEN FALSE
    ELSE \A n \in 1 .. Len(Val(buyConfig.conditions)) :
            evaluateCondition(Val(buyConfig.conditions)[n], priceData, previousPriceData)

\* ------------------------------------------------------------ shouldSell
\* (close - entryPrice) / entryPrice * 100 of a trade at a bar.
PctChange(priceData, trade) ==
    [num |-> (priceData.close - trade.entryPrice) * 100, den |-> trade.entryPrice]

SellConditionMet(condition, priceData, previousPriceData, trade) ==
    IF condition.type = "stopLoss"
    THEN /\ condition.value # None
         /\ PctChange(priceData, trade).num
               <= (0 - Val(condition.value)) * PctChange(priceData, trade).den
    ELSE IF condition.type = "takeProfit"
    THEN /\ condition.value # None
         /\ PctChange(priceData, trade).num
               >= Val(condition.value) * PctChange(priceData, trade).den
    ELSE evaluateCondition(condition, priceData, previousPriceData)

\* The some() callback reads condition.type first: on a null entry that is
\* a TypeError.  some() stops at the first entry whose callback is true, so
\* the entry is reached when no earlier one is met.
shouldSellThrows(sellConfig, priceData, previousPriceData, trade) ==
    IF sellConfig.conditions = None
    THEN FALSE
    ELSE IF ~ IsArray(sellConfig.conditions)
    THEN FALSE
    ELSE IF trade = None
    THEN FALSE
    ELSE IF Val(trade).status = "closed"
    THEN FALSE
    ELSE \E n \in 1 .. Len(Val(sellConfig.conditions)) :
            /\ Val(sellConfig.conditions)[n] = Null
            /\ \A m \in 1 .. n - 1 :
                  ~ SellConditionMet(Val(sellConfig.conditions)[m], priceData,
                                     previousPriceData, Val(trade))

\* shouldSell requiring every condition to be met (AND) instead of one.
shouldSell_AllConditions(sellConfig, priceData, previousPriceData, trade) ==
    IF sellConfig.conditions = None
    THEN FALSE
    ELSE IF ~ IsArray(sellConfig.conditions)
    THEN FALSE
    ELSE IF Len(Val(sellConfig.conditions)) = 0
    THEN FALSE
    ELSE IF trade = None \/ Val(trade).status = "closed"
    THEN FALSE
    ELSE \A n \in 1 .. Len(Val(sellConfig.conditions)) :
            SellConditionMet(Val(sellConfig.conditions)[n], priceData,
                             previousPriceData, Val(trade))

\* trade is an optional trade.
shouldSell(sellConfig, priceData, previousPriceData, trade) ==
    IF sellConfig.conditions = None
    THEN FALSE
    ELSE IF ~ IsArray(sellConfig.conditions)
    THEN FALSE
    ELSE IF Len(Val(sellConfig.conditions)) = 0
    THEN FALSE
    ELSE IF trade = None \/ Val(trade).status = "closed"
    THEN FALSE
    ELSE \E n \in 1 .. Len(Val(sellConfig.conditions)) :
            SellConditionMet(Val(sellConfig.conditions)[n], priceData,
                             previousPriceData, Val(trade))

\* ------------------------------------------------------------ strategies
\* The rule sets of the enumerated strategies: scanner, buy and sell
\* configuration together.
RuleSets ==
    { \* buys whenever there is a bar; stop-loss / take-profit exits
      [scannerConfig |-> [conditions |-> None],
       buyConfig |-> [conditions |-> Some(<< IndicatorRule("price", ">=", 2) >>)],
       sellConfig |-> [conditions |-> Some(<< ExitRule("stopLoss", 30),
                                              ExitRule("takeProfit", 50) >>)]],
      \* scanner on volume, buys cheap bars only, indicator-rule exit
      [scannerConfig |-> [conditions |-> Some(<< IndicatorRule("volume", ">", 5) >>)],
       buyConfig |-> [conditions |-> Some(<< IndicatorRule("price", "<=", 2) >>)],
       sellConfig |-> [conditions |-> Some(<< IndicatorRule("priceChange", "<", 0) >>)]],
      \* buys whenever there is a bar, never sells
      [scannerConfig |-> [conditions |-> Some(<< >>)],
       buyConfig |-> [conditions |-> Some(<< IndicatorRule("price", ">", 1) >>)],
       sellConfig |-> [conditions |-> Some(<< >>)]] }
\* The buy configurations without conditions: conditions missing, not an
\* array, an empty array.
NoBuyConfigs ==
    { [conditions |-> None], [conditions |-> NotArray], [conditions |-> Some(<< >>)] }
\* A strategy on a single symbol: buys a cheap bar, sells on a 50% gain.
SingleSymbolStrategies ==
    { [scannerConfig |-> [conditions |-> None],
       buyConfig |-> [conditions |-> Some(<< IndicatorRule("price", "<=", 2) >>)],
       sellConfig |-> [conditions |-> Some(<< ExitRule("takeProfit", 50) >>)],
       simulationConfig |-> [initialCapital |-> InitialCapital, symbols |-> << "A" >>,
                             maxPositions |-> 1, positionSize |-> 100]] }
\* A strategy whose buy rule is a priceChange condition: buys a symbol on a
\* day its close has fallen, never sells.
PriceChangeStrategies ==
    { [scannerConfig |-> [conditions |-> None],
       buyConfig |-> [conditions |-> Some(<< IndicatorRule("priceChange", "<", 0) >>)],
       sellConfig |-> [conditions |-> Some(<< >>)],
       simulationConfig |-> [initialCapital |-> InitialCapital,
                             symbols |-> << "A", "B" >>,
                             maxPositions |-> 1, positionSize |-> 50]] }
\* A strategy with room and cash for two positions in its only symbol:
\* buys on every bar, sells on a 50% gain.
RepeatBuyStrategies ==
    { [scannerConfig |-> [conditions |-> None],
       buyConfig |-> [conditions |-> Some(<< IndicatorRule("price", ">=", 2) >>)],
       sellConfig |-> [conditions |-> Some(<< ExitRule("takeProfit", 50) >>)],
       simulationConfig |-> [initialCapital |-> InitialCapital + 2,
                             symbols |-> << "A" >>,
                             maxPositions |-> 2, positionSize |-> 50]] }
SimulationConfigs ==
    { [initialCapital |-> InitialCapital, symbols |-> << "A", "B" >>,
       maxPositions |-> m, positionSize |-> p] :
         m \in 1 .. MaxPositionsBound, p \in {50, 100} }
Strategies ==
    { [scannerConfig |-> r.scannerConfig, buyConfig |-> r.buyConfig,
       sellConfig |-> r.sellConfig, simulationConfig |-> c] :
        r \in RuleSets, c \in SimulationConfigs }
    \cup
    { [scannerConfig |-> [conditions |-> None], buyConfig |-> b,
       sellConfig |-> [conditions |-> Some(<< ExitRule("takeProfit", 50) >>)],
       simulationConfig |-> [initialCapital |-> InitialCapital,
                             symbols |-> << "A", "B" >>,
                             maxPositions |-> 1, positionSize |-> 100]] :
        b \in NoBuyConfigs }
    \cup SingleSymbolStrategies
    \cup PriceChangeStrategies
    \cup RepeatBuyStrategies

\* Configurations outside the input contract, which neither the route
\* POST /:id/simulate nor the Mongoose schema keeps from runSimulation: no
\* symbol, a position size of 0, a position size above 100.
InvalidConfigs ==
    { [initialCapital |-> InitialCapital, symbols |-> << >>,
       maxPositions |-> 1, positionSize |-> 100],
      [initialCapital |-> InitialCapital, symbols |-> << "A", "B" >>,
       maxPositions |-> 1, positionSize |-> 0],
      [initialCapital |-> InitialCapital, symbols |-> << "A", "B" >>,
       maxPositions |-> 1, positionSize |-> 150] }
InvalidStrategies ==
    { [scannerConfig |-> [conditions |-> None],
       buyConfig |-> [conditions |-> Some(<< IndicatorRule("price", ">=", 2) >>)],
       sellConfig |-> [conditions |-> Some(<< ExitRule("takeProfit", 50) >>)],
       simulationConfig |-> c] : c \in InvalidConfigs }

\* Malformed or unrecognized conditions: a null entry, a missing indicator,
\* operator or value, an unknown indicator, an unknown operator, an unknown
\* exit type.
MalformedConditions ==
    { Null,
      Cond("undefined", "undefined", ">", Some(1)),
      Cond("undefined", "price", "undefined", Some(1)),
      Cond("undefined", "price", ">", None),
      IndicatorRule("rsi", ">", 1),
      IndicatorRule("price", "!=", 1),
      ExitRule("trailingStop", 5) }
\* Strategies with one malformed condition: alone in the scanner, next to a
\* valid condition in the buy rule set, alone in the sell rule set, or after
\* a valid exit rule in the sell rule set.
MalformedStrategies ==
    LET buys == Some(<< IndicatorRule("price", ">=", 2) >>)
        config == [initialCapital |-> InitialCapital, symbols |-> << "A", "B" >>,
                   maxPositions |-> 1, positionSize |-> 100]
    IN  { [scannerConfig |-> [conditions |-> Some(<< c >>)],
           buyConfig |-> [conditions |-> buys],
           sellConfig |-> [conditions |-> Some(<< >>)],
           simulationConfig |-> config] : c \in MalformedConditions }
        \cup
        { [scannerConfig |-> [conditions |-> None],
           buyConfig |-> [conditions |-> Some(<< IndicatorRule("price", ">=", 2), c >>)],
           sellConfig |-> [conditions |-> Some(<< >>)],
           simulationConfig |-> config] : c \in MalformedConditions }
        \cup
        { [scannerConfig |-> [conditions |-> None],
           buyConfig |-> [conditions |-> buys],
           sellConfig |-> [conditions |-> Some(<< c >>)],
           simulationConfig |-> config] : c \in MalformedConditions }
        \cup
        { [scannerConfig |-> [conditions |-> None],
           buyConfig |-> [conditions |-> buys],
           sellConfig |-> [conditions |-> Some(<< ExitRule("takeProfit", 50), c >>)],
           simulationConfig |-> config] : c \in MalformedConditions }

\* ----------------------------------------------------------------- state
VARIABLES
    strategy,                \* the Strategy runSimulation was called with
    pc,                      \* position of the run in runSimulation
    historicalDataBySymbol,  \* symbol -> optional series (None: not fetched)
    fetched,                 \* number of configured symbols fetched so far
    allDates,                \* the sorted global day index
    i,                       \* day loop index (1-based)
    openPositions,           \* the day's snapshot [...positions]
    k,                       \* index of the sell loop in openPositions
    j,                       \* index of the buy loop in simulationConfig.symbols
    cash,
    trades,                  \* the Trade objects created so far, by identity
    positions,               \* identities of the trades in `positions`
    allTrades,               \* identities of the trades in `allTrades`
    equityCurve,
    results,                 \* optional SimulationResults (Some once returned)
    journal,                 \* history: the steps taken, as <<kind, date, trade>>
    firstRun,                \* history: what an earlier run on the same input left
    suspended,               \* optional second call in flight: its suspended state
    route,                   \* optional handler of POST /:id/simulate that made the call
    db                       \* optional stored Strategy document

vars == << strategy, pc, historicalDataBySymbol, fetched, allDates, i,
           openPositions, k, j, cash, trades, positions, allTrades,
           equityCurve, results, journal, firstRun, suspended, route, db >>

simulationConfig == strategy.simulationConfig
scannerConfig == strategy.scannerConfig
buyConfig == strategy.buyConfig
sellConfig == strategy.sellConfig

\* --------------------------------------------------------------- helpers
\* Array.prototype.find on a series, by date.
FindBar(series, date) ==
    LET hits == SelectSeq(series, LAMBDA b : b.date = date)
    IN  IF hits = << >> THEN None ELSE Some(hits[1])

\* historicalDataBySymbol[symbol] of a fetched symbol.
SeriesFor(symbol) == Val(historicalDataBySymbol[symbol])

currentDate == allDates[i]
\* previousDate = i > 0 ? allDates[i - 1] : null
previousDate == IF i > 1 THEN Some(allDates[i - 1]) ELSE None

\* currentPriceData falling back on the symbol's latest earlier bar.
currentPriceData_CarryForward(symbol) ==
    LET hits == SelectSeq(SeriesFor(symbol), LAMBDA b : b.date <= currentDate)
    IN  IF hits = << >> THEN None ELSE Some(hits[Len(hits)])

\* historicalDataBySymbol[symbol].find(data => data.date === currentDate)
currentPriceData(symbol) == FindBar(SeriesFor(symbol), currentDate)

\* previousPriceData taking the symbol's latest bar before today in its own
\* series.
previousPriceData_OwnSeries(symbol) ==
    LET hits == SelectSeq(SeriesFor(symbol), LAMBDA b : b.date < currentDate)
    IN  IF hits = << >> THEN None ELSE Some(hits[Len(hits)])

\* The symbol's bar on the previous date of the global index, if any.
previousPriceData(symbol) ==
    IF previousDate # None
    THEN FindBar(SeriesFor(symbol), Val(previousDate))
    ELSE None

\* The ascending sequence of the elements of a finite set of integers.
RECURSIVE SortedSeq(_)
SortedSeq(S) ==
    IF S = {} THEN << >>
    ELSE LET m == CHOOSE x \in S : \A y \in S : x <= y
         IN  << m >> \o SortedSeq(S \ {m})

\* Object.values(historicalDataBySymbol).flat().map(date).filter(first).sort()
AllDatesOf(hist) ==
    SortedSeq(UNION { { Val(hist[s])[n].date : n \in 1 .. Len(Val(hist[s])) } :
                      s \in { t \in DOMAIN hist : hist[t] # None } })

\* PortfolioValue marking a position without a bar at its entry price.
RECURSIVE PortfolioValue_EntryPriceWhenNoBar(_, _, _, _, _)
PortfolioValue_EntryPriceWhenNoBar(ps, ts, hist, date, total) ==
    IF ps = << >> THEN total
    ELSE LET symbolPriceData == FindBar(Val(hist[ts[Head(ps)].symbol]), date)
         IN  PortfolioValue_EntryPriceWhenNoBar(Tail(ps), ts, hist, date,
                            IF symbolPriceData # None
                            THEN total + Val(symbolPriceData).close * ts[Head(ps)].quantity
                            ELSE total + ts[Head(ps)].entryPrice * ts[Head(ps)].quantity)

\* positions.reduce(..., cash): cash plus the marked value of the positions
\* whose symbol has a bar on the date.
RECURSIVE PortfolioValue(_, _, _, _, _)
PortfolioValue(ps, ts, hist, date, total) ==
    IF ps = << >> THEN total
    ELSE LET symbolPriceData == FindBar(Val(hist[ts[Head(ps)].symbol]), date)
         IN  PortfolioValue(Tail(ps), ts, hist, date,
                            IF symbolPriceData # None
                            THEN total + Val(symbolPriceData).close * ts[Head(ps)].quantity
                            ELSE total)

\* ------------------------------------------------------------------ Init
\* The locals of runSimulation at line 118, before the first fetch.
InitialLocals ==
    /\ pc = "fetch"
    /\ historicalDataBySymbol = [s \in SymbolSet |-> None]
    /\ fetched = 0
    /\ allDates = << >>
    /\ i = 1
    /\ openPositions = << >>
    /\ k = 1
    /\ j = 1
    /\ cash = simulationConfig.initialCapital
    /\ trades = << >>
    /\ positions = << >>
    /\ allTrades = << >>
    /\ equityCurve = << >>
    /\ results = None
    /\ journal = << >>
    /\ firstRun = None

\* runSimulation is called directly, once: no second call in flight, no
\* route handler, no stored document.
NoServer ==
    /\ suspended = None
    /\ route = None
    /\ db = None

\* runSimulation is called with one of the enumerated strategies.
Init ==
    /\ strategy \in Strategies
    /\ InitialLocals
    /\ NoServer

\* ----------------------------------------------------------------- fetch
\* One iteration of the fetch loop: await getHistoricalData(symbol, ...).
Fetch ==
    /\ pc = "fetch"
    /\ fetched < Len(simulationConfig.symbols)
    /\ \E series \in getHistoricalData :
          historicalDataBySymbol' =
              [historicalDataBySymbol EXCEPT
                 ![simulationConfig.symbols[fetched + 1]] = Some(series)]
    /\ fetched' = fetched + 1
    /\ UNCHANGED << suspended, route, db, firstRun, strategy, pc, allDates, i, openPositions, k, j, cash, trades,
                    positions, allTrades, equityCurve, results, journal >>

\* FetchFail with the error swallowed: the symbol gets an empty series and
\* the loop goes on.
FetchFail_Swallowed ==
    /\ pc = "fetch"
    /\ fetched < Len(simulationConfig.symbols)
    /\ historicalDataBySymbol' =
          [historicalDataBySymbol EXCEPT
             ![simulationConfig.symbols[fetched + 1]] = Some(<< >>)]
    /\ fetched' = fetched + 1
    /\ journal' = Append(journal, << "fetchError", 0, 0 >>)
    /\ UNCHANGED << suspended, route, db, firstRun, strategy, pc, allDates, i, openPositions, k, j, cash,
                    trades, positions, allTrades, equityCurve, results >>

\* The promise of getHistoricalData rejects: the await at line 124 throws,
\* nothing in runSimulation catches it, and the promise of runSimulation
\* rejects.
FetchFail ==
    /\ pc = "fetch"
    /\ fetched < Len(simulationConfig.symbols)
    /\ pc' = "rejected"
    /\ journal' = Append(journal, << "fetchError", 0, 0 >>)
    /\ UNCHANGED << suspended, route, db, firstRun, strategy, historicalDataBySymbol, fetched, allDates, i,
                    openPositions, k, j, cash, trades, positions, allTrades,
                    equityCurve, results >>

\* The fetch loop is over: build the global day index and enter the day
\* loop.  Within a day the sell loop runs while k <= Len(openPositions),
\* then the buy loop while j <= Len(symbols), then the equity snapshot;
\* the snapshot openPositions = [...positions] of a day is taken on entering
\* it.
BuildDates ==
    /\ pc = "fetch"
    /\ fetched = Len(simulationConfig.symbols)
    /\ allDates' = AllDatesOf(historicalDataBySymbol)
    /\ i' = 1
    /\ openPositions' = positions
    /\ k' = 1
    /\ j' = 1
    /\ pc' = "day"
    /\ UNCHANGED << suspended, route, db, firstRun, strategy, historicalDataBySymbol, fetched, cash, trades,
                    positions, allTrades, equityCurve, results, journal >>

\* ------------------------------------------------------------- day: sell
\* The run is in the sell loop of day i, at openPositions[k].
InSellLoop ==
    /\ pc = "day"
    /\ i <= Len(allDates)
    /\ k <= Len(openPositions)

\* The position the sell loop is at.
position == trades[openPositions[k]]

\* ClosePosition stamping the entry date as exit date.
ClosePosition_ExitAtEntryDate(trade, date, priceData) ==
    [trade EXCEPT
       !.exitDate = Some(trade.entryDate),
       !.exitPrice = Some(priceData.close),
       !.status = "closed",
       !.pnl = Some((priceData.close - trade.entryPrice) * trade.quantity),
       !.pnlPercentage = Some([num |-> (priceData.close - trade.entryPrice) * 100,
                               den |-> trade.entryPrice])]

\* The fields the close transition sets on a position.
ClosePosition(trade, date, priceData) ==
    [trade EXCEPT
       !.exitDate = Some(date),
       !.exitPrice = Some(priceData.close),
       !.status = "closed",
       !.pnl = Some((priceData.close - trade.entryPrice) * trade.quantity),
       !.pnlPercentage = Some([num |-> (priceData.close - trade.entryPrice) * 100,
                               den |-> trade.entryPrice])]

\* CashAfterClose crediting the entry price instead of the exit price.
CashAfterClose_EntryPrice(c, trade) == c + trade.entryPrice * trade.quantity

\* cash += position.exitPrice * position.quantity
CashAfterClose(c, trade) == c + Val(trade.exitPrice) * trade.quantity

\* RemovePosition that leaves the closed position in the array.
RemovePosition_KeepsAll(ps, id) == ps

\* positions.filter(p => p !== position)
RemovePosition(ps, id) == SelectSeq(ps, LAMBDA p : p # id)

\* continue: the position is already closed, or its symbol has no bar today.
SellSkip ==
    /\ InSellLoop
    /\ IF position.status = "closed"
       THEN TRUE
       ELSE currentPriceData(position.symbol) = None
    /\ k' = k + 1
    /\ UNCHANGED << suspended, route, db, firstRun, strategy, pc, historicalDataBySymbol, fetched, allDates, i,
                    openPositions, j, cash, trades, positions, allTrades,
                    equityCurve, results, journal >>

\* shouldSell is true: close the position.
SellClose ==
    /\ InSellLoop
    /\ position.status # "closed"
    /\ currentPriceData(position.symbol) # None
    /\ ~ shouldSellThrows(sellConfig, Val(currentPriceData(position.symbol)),
                          previousPriceData(position.symbol), Some(position))
    /\ shouldSell(sellConfig, Val(currentPriceData(position.symbol)),
                  previousPriceData(position.symbol), Some(position))
    /\ LET id == openPositions[k]
           closed == ClosePosition(position, currentDate,
                                   Val(currentPriceData(position.symbol)))
       IN  /\ trades' = [trades EXCEPT ![id] = closed]
           /\ cash' = CashAfterClose(cash, closed)
           /\ positions' = RemovePosition(positions, id)
           /\ allTrades' = Append(allTrades, id)
           /\ journal' = Append(journal, << "close", currentDate, id >>)
    /\ k' = k + 1
    /\ UNCHANGED << suspended, route, db, firstRun, strategy, pc, historicalDataBySymbol, fetched, allDates, i,
                    openPositions, j, equityCurve, results >>

\* shouldSell is false: the position stays open.
SellHold ==
    /\ InSellLoop
    /\ position.status # "closed"
    /\ currentPriceData(position.symbol) # None
    /\ ~ shouldSellThrows(sellConfig, Val(currentPriceData(position.symbol)),
                          previousPriceData(position.symbol), Some(position))
    /\ ~ shouldSell(sellConfig, Val(currentPriceData(position.symbol)),
                    previousPriceData(position.symbol), Some(position))
    /\ k' = k + 1
    /\ UNCHANGED << suspended, route, db, firstRun, strategy, pc, historicalDataBySymbol, fetched, allDates, i,
                    openPositions, j, cash, trades, positions, allTrades,
                    equityCurve, results, journal >>

\* symbol walking simulationConfig.symbols from its last entry to its first.
symbol_Reversed ==
    simulationConfig.symbols[Len(simulationConfig.symbols) - j + 1]

\* shouldSell throws: the exception leaves the loops and the promise of
\* runSimulation rejects.
SellError ==
    /\ InSellLoop
    /\ position.status # "closed"
    /\ currentPriceData(position.symbol) # None
    /\ shouldSellThrows(sellConfig, Val(currentPriceData(position.symbol)),
                        previousPriceData(position.symbol), Some(position))
    /\ pc' = "rejected"
    /\ journal' = Append(journal, << "sellError", currentDate, openPositions[k] >>)
    /\ UNCHANGED << suspended, route, db, firstRun, strategy, historicalDataBySymbol, fetched, allDates, i,
                    openPositions, k, j, cash, trades, positions, allTrades,
                    equityCurve, results >>

\* -------------------------------------------------------------- day: buy
\* The symbol the buy loop is at.
symbol == simulationConfig.symbols[j]

\* const passesScanner = !scannerConfig.conditions || conditions.every(...)
passesScanner(config, priceData, prevPriceData) ==
    IF config.conditions = None
    THEN TRUE
    ELSE \A n \in 1 .. Len(Val(config.conditions)) :
            evaluateCondition(Val(config.conditions)[n], priceData, prevPriceData)

\* PositionValue sized off the current cash instead of the initial capital.
PositionValue_FromCash(config) ==
    [num |-> config.positionSize * cash, den |-> 100]

\* positionValue = (positionSize / 100) * initialCapital, as a fraction.
PositionValue(config) ==
    [num |-> config.positionSize * config.initialCapital, den |-> 100]

\* NotEnoughCash that only refuses once cash is negative.
NotEnoughCash_Negative(c, positionValue) == c < 0

\* cash < positionValue
NotEnoughCash(c, positionValue) == c * positionValue.den < positionValue.num

\* Quantity rounding up instead of down.
Quantity_RoundedUp(positionValue, close) ==
    (positionValue.num + positionValue.den * close - 1) \div (positionValue.den * close)

\* Math.floor(positionValue / close)
Quantity(positionValue, close) == positionValue.num \div (positionValue.den * close)

\* The Trade literal of a new position.
NewTrade(sym, date, priceData, quantity) ==
    [symbol |-> sym, entryDate |-> date, entryPrice |-> priceData.close,
     quantity |-> quantity, status |-> "open",
     exitDate |-> None, exitPrice |-> None, pnl |-> None, pnlPercentage |-> None]

\* CashAfterOpen debiting the price of a single share.
CashAfterOpen_OneShare(c, trade) == c - trade.entryPrice

\* cash -= newTrade.entryPrice * newTrade.quantity
CashAfterOpen(c, trade) == c - trade.entryPrice * trade.quantity

\* MaxPositionsReached with > in place of >=.
MaxPositionsReached_OffByOne(ps, config) == Len(ps) > config.maxPositions

\* positions.length >= simulationConfig.maxPositions
MaxPositionsReached(ps, config) == Len(ps) >= config.maxPositions

\* QuantityIsZero that only rejects a negative quantity.
QuantityIsZero_Negative(quantity) == quantity < 0

\* quantity === 0
QuantityIsZero(quantity) == quantity = 0

\* BuyAt that does not wait for the end of the sell loop.
BuyAt_BeforeSells ==
    /\ pc = "day"
    /\ i <= Len(allDates)
    /\ j <= Len(simulationConfig.symbols)
    /\ ~ MaxPositionsReached(positions, simulationConfig)

\* The sell loop of day i is over and the buy loop reaches a symbol with a
\* free slot.
BuyAt ==
    /\ pc = "day"
    /\ i <= Len(allDates)
    /\ k > Len(openPositions)
    /\ j <= Len(simulationConfig.symbols)
    /\ ~ MaxPositionsReached(positions, simulationConfig)

\* BuySignal that does not fire for a symbol with an open position.
BuySignal_OnePerSymbol ==
    /\ currentPriceData(symbol) # None
    /\ passesScanner(scannerConfig, Val(currentPriceData(symbol)),
                     previousPriceData(symbol))
    /\ shouldBuy(buyConfig, Val(currentPriceData(symbol)), previousPriceData(symbol))
    /\ \A n \in 1 .. Len(positions) : trades[positions[n]].symbol # symbol

\* scanner and buy signals both fire for the symbol's bar of today.
BuySignal ==
    /\ currentPriceData(symbol) # None
    /\ passesScanner(scannerConfig, Val(currentPriceData(symbol)),
                     previousPriceData(symbol))
    /\ shouldBuy(buyConfig, Val(currentPriceData(symbol)), previousPriceData(symbol))

\* continue: the symbol has no bar today.
BuySkipNoBar ==
    /\ BuyAt
    /\ currentPriceData(symbol) = None
    /\ j' = j + 1
    /\ UNCHANGED << suspended, route, db, firstRun, strategy, pc, historicalDataBySymbol, fetched, allDates, i,
                    openPositions, k, cash, trades, positions, allTrades,
                    equityCurve, results, journal >>

\* BuyNoSignal that may also drop a symbol whose signals fire.
BuyNoSignal_Unguarded ==
    /\ BuyAt
    /\ currentPriceData(symbol) # None
    /\ j' = j + 1
    /\ UNCHANGED << suspended, route, db, firstRun, strategy, pc, historicalDataBySymbol, fetched, allDates, i,
                    openPositions, k, cash, trades, positions, allTrades,
                    equityCurve, results, journal >>

\* The scanner or the buy rule set does not fire.
BuyNoSignal ==
    /\ BuyAt
    /\ currentPriceData(symbol) # None
    /\ ~ BuySignal
    /\ j' = j + 1
    /\ UNCHANGED << suspended, route, db, firstRun, strategy, pc, historicalDataBySymbol, fetched, allDates, i,
                    openPositions, k, cash, trades, positions, allTrades,
                    equityCurve, results, journal >>

\* continue: not enough cash.
BuySkipCash ==
    /\ BuyAt
    /\ BuySignal
    /\ NotEnoughCash(cash, PositionValue(simulationConfig))
    /\ journal' = Append(journal, << "skipCash", currentDate, 0 >>)
    /\ j' = j + 1
    /\ UNCHANGED << suspended, route, db, firstRun, strategy, pc, historicalDataBySymbol, fetched, allDates, i,
                    openPositions, k, cash, trades, positions, allTrades,
                    equityCurve, results >>

\* continue: the quantity is zero.
BuySkipQuantity ==
    /\ BuyAt
    /\ BuySignal
    /\ ~ NotEnoughCash(cash, PositionValue(simulationConfig))
    /\ QuantityIsZero(Quantity(PositionValue(simulationConfig),
                               Val(currentPriceData(symbol)).close))
    /\ journal' = Append(journal, << "skipQuantity", currentDate, 0 >>)
    /\ j' = j + 1
    /\ UNCHANGED << suspended, route, db, firstRun, strategy, pc, historicalDataBySymbol, fetched, allDates, i,
                    openPositions, k, cash, trades, positions, allTrades,
                    equityCurve, results >>

\* Open a position.
BuyOpen ==
    /\ BuyAt
    /\ BuySignal
    /\ ~ NotEnoughCash(cash, PositionValue(simulationConfig))
    /\ ~ QuantityIsZero(Quantity(PositionValue(simulationConfig),
                                 Val(currentPriceData(symbol)).close))
    /\ LET newTrade ==
               NewTrade(symbol, currentDate, Val(currentPriceData(symbol)),
                        Quantity(PositionValue(simulationConfig),
                                 Val(currentPriceData(symbol)).close))
           id == Len(trades) + 1
       IN  /\ trades' = Append(trades, newTrade)
           /\ cash' = CashAfterOpen(cash, newTrade)
           /\ positions' = Append(positions, id)
           /\ journal' = Append(journal, << "open", currentDate, id >>)
    /\ j' = j + 1
    /\ UNCHANGED << suspended, route, db, firstRun, strategy, pc, historicalDataBySymbol, fetched, allDates, i,
                    openPositions, k, allTrades, equityCurve, results >>

\* ----------------------------------------------------------- day: equity
\* The buy loop is over (every symbol tried, or the break on the maximum
\* number of positions): equityCurve.push({date, equity}), the loop's i++
\* and the next day's snapshot.
Equity ==
    /\ pc = "day"
    /\ i <= Len(allDates)
    /\ k > Len(openPositions)
    /\ IF j <= Len(simulationConfig.symbols)
       THEN MaxPositionsReached(positions, simulationConfig)
       ELSE TRUE
    /\ equityCurve' =
          Append(equityCurve,
                 [date |-> currentDate,
                  equity |-> PortfolioValue(positions, trades, historicalDataBySymbol,
                                            currentDate, cash)])
    /\ journal' = Append(journal, << "equity", currentDate, 0 >>)
    /\ i' = i + 1
    /\ openPositions' = positions
    /\ k' = 1
    /\ j' = 1
    /\ UNCHANGED << suspended, route, db, firstRun, strategy, pc, historicalDataBySymbol, fetched, allDates,
                    cash, trades, positions, allTrades, results >>

\* ---------------------------------------------------------- finalization
\* lastPriceData taking the first bar of the series.
lastPriceData_First(sym) == SeriesFor(sym)[1]

\* The last bar of a symbol's series.
lastPriceData(sym) == SeriesFor(sym)[Len(SeriesFor(sym))]

\* ForceClose that leaves the status untouched.
ForceClose_KeepsStatus(trade, priceData) ==
    [trade EXCEPT
       !.exitDate = Some(priceData.date),
       !.exitPrice = Some(priceData.close),
       !.pnl = Some((priceData.close - trade.entryPrice) * trade.quantity),
       !.pnlPercentage = Some([num |-> (priceData.close - trade.entryPrice) * 100,
                               den |-> trade.entryPrice])]

\* The fields finalization sets on a position still in `positions`.
ForceClose(trade, priceData) ==
    [trade EXCEPT
       !.exitDate = Some(priceData.date),
       !.exitPrice = Some(priceData.close),
       !.status = "closed",
       !.pnl = Some((priceData.close - trade.entryPrice) * trade.quantity),
       !.pnlPercentage = Some([num |-> (priceData.close - trade.entryPrice) * 100,
                               den |-> trade.entryPrice])]

\* The elements of a sequence.
Range(seq) == { seq[n] : n \in 1 .. Len(seq) }

\* The day loop is over: for (const position of positions) { ...;
\* allTrades.push(position) }.  `positions` itself is not changed.
Finalize ==
    /\ pc = "day"
    /\ i > Len(allDates)
    /\ trades' = [id \in DOMAIN trades |->
                    IF id \in Range(positions)
                    THEN ForceClose(trades[id], lastPriceData(trades[id].symbol))
                    ELSE trades[id]]
    /\ allTrades' = allTrades \o positions
    /\ journal' = journal \o
                    [n \in 1 .. Len(positions) |->
                       << "finalize", lastPriceData(trades[positions[n]].symbol).date,
                          positions[n] >>]
    /\ pc' = "metrics"
    /\ UNCHANGED << suspended, route, db, firstRun, strategy, historicalDataBySymbol, fetched, allDates, i,
                    openPositions, k, j, cash, positions, equityCurve, results >>

\* --------------------------------------------------------------- metrics
\* equityCurve[equityCurve.length - 1]?.equity || initialCapital
finalCapital(curve, initialCapital) ==
    IF Len(curve) = 0 \/ curve[Len(curve)].equity = 0
    THEN initialCapital
    ELSE curve[Len(curve)].equity

\* trade.pnl || 0
PnlOrZero(trade) == IF trade.pnl = None THEN 0 ELSE Val(trade.pnl)

\* reduce((sum, trade) => sum + (trade.pnl || 0), 0)
RECURSIVE SumPnl(_)
SumPnl(seq) == IF seq = << >> THEN 0 ELSE PnlOrZero(Head(seq)) + SumPnl(Tail(seq))

\* Drawdowns measuring every point against the starting peak.
RECURSIVE Drawdowns_FixedPeak(_, _)
Drawdowns_FixedPeak(curve, peak) ==
    IF curve = << >> THEN << >>
    ELSE << [date |-> Head(curve).date,
             drawdown |-> [num |-> (peak - Head(curve).equity) * 100,
                           den |-> peak]] >>
         \o Drawdowns_FixedPeak(Tail(curve), peak)

\* The drawdown series: one point per equity point, with the running peak
\* (the denominator of the fraction) updated before the division.
RECURSIVE Drawdowns(_, _)
Drawdowns(curve, peak) ==
    IF curve = << >> THEN << >>
    ELSE LET newPeak == IF Head(curve).equity > peak THEN Head(curve).equity ELSE peak
         IN  << [date |-> Head(curve).date,
                 drawdown |-> [num |-> (newPeak - Head(curve).equity) * 100,
                               den |-> newPeak]] >>
             \o Drawdowns(Tail(curve), newPeak)

\* Math.max(...drawdowns.map(d => d.drawdown), 0)
RECURSIVE MaxDrawdown(_)
MaxDrawdown(dds) ==
    IF dds = << >> THEN [num |-> 0, den |-> 1]
    ELSE LET rest == MaxDrawdown(Tail(dds))
             d == Head(dds).drawdown
         IN  IF d.num * rest.den > rest.num * d.den THEN d ELSE rest

\* The results object runSimulation returns.
Results(ledger, curve, initialCapital) ==
    LET totalPnl == finalCapital(curve, initialCapital) - initialCapital
        winningTrades == Len(SelectSeq(ledger, LAMBDA t : PnlOrZero(t) > 0))
        totalTrades == Len(ledger)
        drawdowns == Drawdowns(curve, initialCapital)
        grossProfit == SumPnl(SelectSeq(ledger, LAMBDA t : PnlOrZero(t) > 0))
        grossLoss == 0 - SumPnl(SelectSeq(ledger, LAMBDA t : PnlOrZero(t) < 0))
    IN  [totalPnl |-> totalPnl,
         totalPnlPercentage |-> [num |-> totalPnl * 100, den |-> initialCapital],
         winRate |-> IF totalTrades > 0
                     THEN [num |-> winningTrades * 100, den |-> totalTrades]
                     ELSE [num |-> 0, den |-> 1],
         trades |-> ledger,
         equityCurve |-> curve,
         drawdowns |-> drawdowns,
         metrics |-> [maxDrawdown |-> MaxDrawdown(drawdowns),
                      profitFactor |->
                          IF grossLoss > 0
                          THEN [num |-> grossProfit, den |-> grossLoss]
                          ELSE IF grossProfit > 0
                          THEN [num |-> 1, den |-> 0]
                          ELSE [num |-> 0, den |-> 1],
                      totalTrades |-> totalTrades,
                      winningTrades |-> winningTrades,
                      losingTrades |-> totalTrades - winningTrades]]

\* The ledger as the sequence of Trade objects allTrades refers to.
Ledger == [n \in 1 .. Len(allTrades) |-> trades[allTrades[n]]]

\* Compute the metrics and return.
Metrics ==
    /\ pc = "metrics"
    /\ results' = Some(Results(Ledger, equityCurve, simulationConfig.initialCapital))
    /\ pc' = "done"
    /\ UNCHANGED << suspended, route, db, firstRun, strategy, historicalDataBySymbol, fetched, allDates, i,
                    openPositions, k, j, cash, trades, positions, allTrades,
                    equityCurve, journal >>

\* ------------------------------------------------------------ second run
\* runSimulation is called a second time with the same strategy, the
\* provider returning the same series: the locals of lines 115-118 start
\* afresh, and what the first run did is kept for comparison.
Restart ==
    /\ pc = "done"
    /\ firstRun = None
    /\ firstRun' = Some([results |-> Val(results), journal |-> journal,
                         cash |-> cash, trades |-> trades, positions |-> positions,
                         allTrades |-> allTrades])
    /\ pc' = "fetch"
    /\ allDates' = << >>
    /\ i' = 1
    /\ openPositions' = << >>
    /\ k' = 1
    /\ j' = 1
    /\ cash' = simulationConfig.initialCapital
    /\ trades' = << >>
    /\ positions' = << >>
    /\ allTrades' = << >>
    /\ equityCurve' = << >>
    /\ results' = None
    /\ journal' = << >>
    /\ UNCHANGED << suspended, route, db, strategy, historicalDataBySymbol, fetched >>

\* ------------------------------------------------------- concurrent calls
\* Everything one call of runSimulation owns: its argument, its position,
\* its locals, and the route handler that made the call (if any).
Context ==
    [strategy |-> strategy, pc |-> pc,
     historicalDataBySymbol |-> historicalDataBySymbol, fetched |-> fetched,
     allDates |-> allDates, i |-> i, openPositions |-> openPositions,
     k |-> k, j |-> j, cash |-> cash, trades |-> trades,
     positions |-> positions, allTrades |-> allTrades,
     equityCurve |-> equityCurve, results |-> results, journal |-> journal,
     route |-> route]

\* The context of a call with strategy s at line 118, made by handler r.
InitialContext(s, r) ==
    [strategy |-> s, pc |-> "fetch",
     historicalDataBySymbol |-> [sym \in SymbolSet |-> None], fetched |-> 0,
     allDates |-> << >>, i |-> 1, openPositions |-> << >>,
     k |-> 1, j |-> 1, cash |-> s.simulationConfig.initialCapital,
     trades |-> << >>, positions |-> << >>, allTrades |-> << >>,
     equityCurve |-> << >>, results |-> None, journal |-> << >>,
     route |-> r]

\* The call in the foreground is not executing: it has not started, it is
\* waiting at the await of line 124, or it has settled.  (After the last
\* fetch resolves runSimulation runs to its end without another await.)
AtAwait ==
    \/ pc \in {"idle", "done", "rejected"}
    \/ pc = "fetch" /\ fetched < Len(simulationConfig.symbols)

\* Switch with cash held in one variable for both calls, as a module-level
\* variable would be.
Switch_SharedCash ==
    /\ suspended # None
    /\ firstRun = None
    /\ AtAwait
    /\ suspended' = Some(Context)
    /\ strategy' = Val(suspended).strategy
    /\ pc' = Val(suspended).pc
    /\ historicalDataBySymbol' = Val(suspended).historicalDataBySymbol
    /\ fetched' = Val(suspended).fetched
    /\ allDates' = Val(suspended).allDates
    /\ i' = Val(suspended).i
    /\ openPositions' = Val(suspended).openPositions
    /\ k' = Val(suspended).k
    /\ j' = Val(suspended).j
    /\ cash' = cash
    /\ trades' = Val(suspended).trades
    /\ positions' = Val(suspended).positions
    /\ allTrades' = Val(suspended).allTrades
    /\ equityCurve' = Val(suspended).equityCurve
    /\ results' = Val(suspended).results
    /\ journal' = Val(suspended).journal
    /\ route' = Val(suspended).route
    /\ UNCHANGED << db, firstRun >>

\* The event loop turns to the other call: the one in the foreground is
\* suspended with its own strategy and locals, the other resumes with its
\* own.  runSimulation keeps all its state in locals (lines 108-121), so
\* nothing else passes from one call to the other.
Switch ==
    /\ suspended # None
    /\ firstRun = None
    /\ AtAwait
    /\ suspended' = Some(Context)
    /\ strategy' = Val(suspended).strategy
    /\ pc' = Val(suspended).pc
    /\ historicalDataBySymbol' = Val(suspended).historicalDataBySymbol
    /\ fetched' = Val(suspended).fetched
    /\ allDates' = Val(suspended).allDates
    /\ i' = Val(suspended).i
    /\ openPositions' = Val(suspended).openPositions
    /\ k' = Val(suspended).k
    /\ j' = Val(suspended).j
    /\ cash' = Val(suspended).cash
    /\ trades' = Val(suspended).trades
    /\ positions' = Val(suspended).positions
    /\ allTrades' = Val(suspended).allTrades
    /\ equityCurve' = Val(suspended).equityCurve
    /\ results' = Val(suspended).results
    /\ journal' = Val(suspended).journal
    /\ route' = Val(suspended).route
    /\ UNCHANGED << db, firstRun >>


\* ------------------------------------------------------------- the server
\* What the routes read and write of a stored Strategy document: its
\* configuration, its status and its results.
StoredDocument(config, status, res) ==
    [config |-> config, status |-> status, results |-> res]

\* The configurations the edit form stores.
ServerConfigs == SingleSymbolStrategies \cup RepeatBuyStrategies

\* A handler of POST /:id/simulate: where it is, the document findById gave
\* it (none yet on arrival) and the response it has sent (none yet).
Handler(at, doc, response) ==
    [at |-> at, doc |-> doc, response |-> response]

Received == Handler("received", None, None)

\* The handler's state before it calls runSimulation: no call, no locals.
IdleContext(s, r) == [InitialContext(s, r) EXCEPT !.pc = "idle"]

\* Line 88: const strategy = await Strategy.findById(req.params.id).
Load ==
    /\ route # None
    /\ Val(route).at = "received"
    /\ db # None
    /\ route' = Some(Handler("loaded", db, None))
    /\ UNCHANGED << suspended, db, firstRun, strategy, pc, historicalDataBySymbol,
                    fetched, allDates, i, openPositions, k, j, cash, trades,
                    positions, allTrades, equityCurve, results, journal >>

\* Lines 95-96: strategy.status = 'in_progress'; await strategy.save().
\* save() writes the paths the handler modified: the status, unless the
\* loaded document already had that value.
MarkInProgress ==
    /\ route # None
    /\ Val(route).at = "loaded"
    /\ route' = Some(Handler("saved",
                             Some([Val(Val(route).doc) EXCEPT !.status = "in_progress"]),
                             None))
    /\ db' = IF Val(Val(route).doc).status = "in_progress"
             THEN db
             ELSE Some([Val(db) EXCEPT !.status = "in_progress"])
    /\ UNCHANGED << suspended, firstRun, strategy, pc, historicalDataBySymbol,
                    fetched, allDates, i, openPositions, k, j, cash, trades,
                    positions, allTrades, equityCurve, results, journal >>

\* Lines 99-116: runSimulation(strategy.toObject()) runs up to its first
\* await (lines 108-124) and returns its promise; the handlers are attached
\* and the 202 response is sent at once.
StartRun ==
    /\ route # None
    /\ Val(route).at = "saved"
    /\ pc = "idle"
    /\ strategy' = Val(Val(route).doc).config
    /\ pc' = "fetch"
    /\ historicalDataBySymbol' = [s \in SymbolSet |-> None]
    /\ fetched' = 0
    /\ allDates' = << >>
    /\ i' = 1
    /\ openPositions' = << >>
    /\ k' = 1
    /\ j' = 1
    /\ cash' = Val(Val(route).doc).config.simulationConfig.initialCapital
    /\ trades' = << >>
    /\ positions' = << >>
    /\ allTrades' = << >>
    /\ equityCurve' = << >>
    /\ results' = None
    /\ journal' = << >>
    /\ route' = Some(Handler("running", Val(route).doc, Some(202)))
    /\ UNCHANGED << suspended, db, firstRun >>

\* Lines 100-105: the run resolved; strategy.results = results,
\* strategy.status = 'completed', await strategy.save().  save() writes the
\* two modified paths and leaves the stored configuration as it is.  `of`
\* records the configuration the run was called with.
StoreCompleted ==
    /\ route # None
    /\ Val(route).at = "running"
    /\ pc = "done"
    /\ db' = Some([Val(db) EXCEPT
                     !.status = "completed",
                     !.results = Some([value |-> Val(results), of |-> strategy])])
    /\ route' = Some(Handler("finished",
                             Some([Val(Val(route).doc) EXCEPT
                                     !.status = "completed",
                                     !.results = Some([value |-> Val(results),
                                                       of |-> strategy])]),
                             Val(route).response))
    /\ UNCHANGED << suspended, firstRun, strategy, pc, historicalDataBySymbol,
                    fetched, allDates, i, openPositions, k, j, cash, trades,
                    positions, allTrades, equityCurve, results, journal >>

\* Lines 106-111: the run rejected; strategy.status = 'saved',
\* await strategy.save().
StoreSaved ==
    /\ route # None
    /\ Val(route).at = "running"
    /\ pc = "rejected"
    /\ db' = Some([Val(db) EXCEPT !.status = "saved"])
    /\ route' = Some(Handler("finished",
                             Some([Val(Val(route).doc) EXCEPT !.status = "saved"]),
                             Val(route).response))
    /\ UNCHANGED << suspended, firstRun, strategy, pc, historicalDataBySymbol,
                    fetched, allDates, i, openPositions, k, j, cash, trades,
                    positions, allTrades, equityCurve, results, journal >>

\* PUT /:id with the body the edit form sends: the form's values with
\* status 'saved' and results null, stored by findByIdAndUpdate whatever
\* the stored status is.  The server handles the request while no call of
\* runSimulation is executing.
Put ==
    /\ db # None
    /\ AtAwait
    /\ \E values \in ServerConfigs :
          db' = Some(StoredDocument(values, "saved", None))
    /\ UNCHANGED << suspended, route, firstRun, strategy, pc, historicalDataBySymbol,
                    fetched, allDates, i, openPositions, k, j, cash, trades,
                    positions, allTrades, equityCurve, results, journal >>

\* --------------------------------------------------------- specification
Next ==
    \/ Fetch
    \/ FetchFail
    \/ BuildDates
    \/ SellSkip
    \/ SellClose
    \/ SellHold
    \/ BuySkipNoBar
    \/ BuyNoSignal
    \/ BuySkipCash
    \/ BuySkipQuantity
    \/ BuyOpen
    \/ Equity
    \/ Finalize
    \/ Metrics

Spec == Init /\ [][Next]_vars

\* Two runs in a row on the same strategy and the same series.
NextTwice ==
    \/ Next
    \/ Restart

\* The strategies run twice: those with the smallest and with the largest
\* enumerated maxPositions.
InitTwice ==
    /\ strategy \in { s \in Strategies :
                        s.simulationConfig.maxPositions \in {1, MaxPositionsBound} }
    /\ InitialLocals
    /\ NoServer

SpecTwice == InitTwice /\ [][NextTwice]_vars

\* runSimulation called with any strategy the server can hold, valid or not.
InitAnyConfig ==
    /\ strategy \in Strategies \cup InvalidStrategies
    /\ InitialLocals
    /\ NoServer

SpecAnyConfig == InitAnyConfig /\ [][Next]_vars

\* runSimulation called with strategies whose rule sets may hold a
\* malformed condition; shouldSell can then throw.
InitMalformed ==
    /\ strategy \in Strategies \cup MalformedStrategies
    /\ InitialLocals
    /\ NoServer

NextMalformed ==
    \/ Next
    \/ SellError

SpecMalformed == InitMalformed /\ [][NextMalformed]_vars

\* ================================================================ claims
\* Kinds of the journal entries that mention a trade.
JournalKinds(id) == { journal[n][1] : n \in { m \in 1 .. Len(journal) : journal[m][3] = id } }

\* Two calls of runSimulation at once, each fetching its own series and
\* interleaved with the other at the awaits; when the call in the
\* foreground has returned it is run once more, alone, on the series it
\* fetched.  The strategies with two symbols are run alone.
InitConcurrent ==
    /\ \/ /\ strategy \in RepeatBuyStrategies
          /\ suspended \in { Some(InitialContext(s, None)) : s \in SingleSymbolStrategies }
       \/ /\ strategy \in { s \in Strategies :
                              /\ Len(s.simulationConfig.symbols) = 2
                              /\ s.simulationConfig.maxPositions = 1 }
          /\ suspended = None
    /\ InitialLocals
    /\ route = None
    /\ db = None

NextConcurrent ==
    \/ Next
    \/ Switch
    \/ Restart

SpecConcurrent == InitConcurrent /\ [][NextConcurrent]_vars


\* The server holds one strategy with status 'saved'.  Either two requests
\* POST /:id/simulate for it have arrived (a single-symbol strategy), or one
\* has (a two-symbol strategy); PUT requests arrive at any time.
InitServer ==
    /\ \/ /\ strategy \in ServerConfigs
          /\ suspended = Some(IdleContext(strategy, Some(Received)))
       \/ /\ strategy \in { s \in Strategies :
                              /\ Len(s.simulationConfig.symbols) = 2
                              /\ s.simulationConfig.maxPositions = 1 }
          /\ suspended = None
    /\ db = Some(StoredDocument(strategy, "saved", None))
    /\ route = Some(Received)
    /\ pc = "idle"
    /\ historicalDataBySymbol = [s \in SymbolSet |-> None]
    /\ fetched = 0
    /\ allDates = << >>
    /\ i = 1
    /\ openPositions = << >>
    /\ k = 1
    /\ j = 1
    /\ cash = simulationConfig.initialCapital
    /\ trades = << >>
    /\ positions = << >>
    /\ allTrades = << >>
    /\ equityCurve = << >>
    /\ results = None
    /\ journal = << >>
    /\ firstRun = None

NextServer ==
    \/ Next
    \/ Switch
    \/ Load
    \/ MarkInProgress
    \/ StartRun
    \/ StoreCompleted
    \/ StoreSaved
    \/ Put

SpecServer == InitServer /\ [][NextServer]_vars

\* C1: when runSimulation has returned, every trade of results.trades has
\* status closed and has exitDate, exitPrice, pnl and pnlPercentage set,
\* whether a sell signal or the finalization closed it.
C1_ReturnedLedgerAllClosed ==
    results # None =>
        \A n \in 1 .. Len(Val(results).trades) :
            LET t == Val(results).trades[n]
            IN  /\ t.status = "closed"
                /\ t.exitDate # None
                /\ t.exitPrice # None
                /\ t.pnl # None
                /\ t.pnlPercentage # None

\* A returned ledger holding a trade closed by a sell signal and a trade
\* closed by the finalization.
C1_Witness ==
    /\ results # None
    /\ \E a, b \in 1 .. Len(allTrades) :
          /\ "close" \in JournalKinds(allTrades[a])
          /\ "finalize" \in JournalKinds(allTrades[b])

\* C2: in every state of a run the number of open positions is at most
\* simulationConfig.maxPositions.
C2_OpenPositionsBounded ==
    /\ Len(positions) <= simulationConfig.maxPositions
    /\ Cardinality({ id \in DOMAIN trades : trades[id].status = "open" })
          <= simulationConfig.maxPositions

\* The limit is reached with more than one position, right after an open,
\* and the buy loop has a further symbol with a buy signal to look at.
C2_Witness ==
    /\ pc = "day"
    /\ i <= Len(allDates)
    /\ j <= Len(simulationConfig.symbols)
    /\ Len(positions) = simulationConfig.maxPositions
    /\ Len(positions) > 1
    /\ journal[Len(journal)][1] = "open"
    /\ BuySignal

\* C3: at the end of a completed run, for every configuration and every
\* set of price series, the sum of pnl over the ledger trades equals
\* finalEquity - initialCapital, that is results.totalPnl.
C3_LedgerPnlEqualsTotalPnl ==
    results # None => SumPnl(Val(results).trades) = Val(results).totalPnl

\* Journal entries of the day loop, by index, and their rank within a day.
DaySteps ==
    { n \in 1 .. Len(journal) :
        journal[n][1] \in {"close", "open", "skipCash", "skipQuantity", "equity"} }
StepRank(n) ==
    CASE journal[n][1] = "close" -> 1
      [] journal[n][1] = "equity" -> 3
      [] OTHER -> 2

\* A sell signal closed the trade on or before date d.
SoldBy(id, d) ==
    \E n \in 1 .. Len(journal) :
        journal[n][1] = "close" /\ journal[n][3] = id /\ journal[n][2] <= d

\* The close of a symbol on a date, 0 when it has no bar that date.
MarkAt(sym, d) ==
    IF \E n \in 1 .. Len(SeriesFor(sym)) : SeriesFor(sym)[n].date = d
    THEN (CHOOSE b \in Range(SeriesFor(sym)) : b.date = d).close
    ELSE 0

\* What a trade adds to the portfolio value once every close and open of
\* date d is done: nothing if opened later; proceeds minus cost if a sell
\* signal closed it by then; else its mark of date d minus its cost.
ValueAfterDay(id, d) ==
    IF trades[id].entryDate > d THEN 0
    ELSE IF SoldBy(id, d)
    THEN (Val(trades[id].exitPrice) - trades[id].entryPrice) * trades[id].quantity
    ELSE (MarkAt(trades[id].symbol, d) - trades[id].entryPrice) * trades[id].quantity

\* Initial capital plus the values of the first n trades after date d.
RECURSIVE EquityAfterDay(_, _)
EquityAfterDay(n, d) ==
    IF n = 0 THEN simulationConfig.initialCapital
    ELSE ValueAfterDay(n, d) + EquityAfterDay(n - 1, d)

\* C4: on every simulated day the closes come first, then the opens (and
\* the skipped buys), then the single equity snapshot; days follow each
\* other in ascending order, and the equity point of a day is the value of
\* the portfolio after that day's closes and opens.
C4_DayStepsInOrder ==
    /\ \A a \in DaySteps :
          a + 1 \in DaySteps =>
            \/ journal[a][2] < journal[a + 1][2]
            \/ /\ journal[a][2] = journal[a + 1][2]
               /\ StepRank(a) <= StepRank(a + 1)
               /\ StepRank(a) # 3
    /\ \A a \in 1 .. Len(journal) : a \notin DaySteps => a + 1 \notin DaySteps
    /\ \A n \in 1 .. Len(equityCurve) :
          equityCurve[n].equity = EquityAfterDay(Len(trades), equityCurve[n].date)

\* A day on which a position was closed, another opened, and the equity
\* snapshot taken.
C4_Witness ==
    \E a, b, c \in DaySteps :
        /\ journal[a][1] = "close"
        /\ journal[b][1] = "open"
        /\ journal[c][1] = "equity"
        /\ journal[a][2] = journal[b][2]
        /\ journal[b][2] = journal[c][2]

\* The sell loop is at an open position whose symbol has a bar today and
\* for which shouldSell is true: the close transition fires.
CloseFires ==
    /\ pc = "day"
    /\ i <= Len(allDates)
    /\ k <= Len(openPositions)
    /\ position.status = "open"
    /\ MarkAt(position.symbol, currentDate) # 0
    /\ shouldSell(sellConfig, Val(currentPriceData(position.symbol)),
                  previousPriceData(position.symbol), Some(position))

\* C5: when the close transition fires for position p on day d with close
\* c, then p.exitDate = d, p.exitPrice = c, p.status = closed,
\* p.pnl = (c - entryPrice) * quantity, cash grows by exactly c * quantity,
\* p leaves positions (the others keep their order) and is appended to the
\* ledger; no other trade and no earlier ledger entry changes.
C5_CloseTransition ==
    [][ CloseFires =>
          LET id == openPositions[k]
              c == MarkAt(trades[id].symbol, currentDate)
          IN  /\ trades'[id].exitDate = Some(currentDate)
              /\ trades'[id].exitPrice = Some(c)
              /\ trades'[id].status = "closed"
              /\ trades'[id].pnl = Some((c - trades[id].entryPrice) * trades[id].quantity)
              /\ trades'[id].symbol = trades[id].symbol
              /\ trades'[id].entryDate = trades[id].entryDate
              /\ trades'[id].entryPrice = trades[id].entryPrice
              /\ trades'[id].quantity = trades[id].quantity
              /\ cash' = cash + c * trades[id].quantity
              /\ \E n \in 1 .. Len(positions) :
                    /\ positions[n] = id
                    /\ positions' = SubSeq(positions, 1, n - 1)
                                      \o SubSeq(positions, n + 1, Len(positions))
              /\ id \notin Range(positions')
              /\ allTrades' = Append(allTrades, id)
              /\ DOMAIN trades' = DOMAIN trades
              /\ \A o \in DOMAIN trades : o # id => trades'[o] = trades[o]
      ]_vars

\* A close has just happened while another position stays open and the
\* ledger already held an earlier trade.
C5_Witness ==
    /\ journal # << >>
    /\ journal[Len(journal)][1] = "close"
    /\ pc = "day"
    /\ positions # << >>
    /\ Len(allTrades) >= 2

\* C6: a position is opened for symbol s on day d only if s has a bar on
\* d, every scanner condition is true (or there is none), the buy rule set
\* is non-empty and every buy condition is true, positionValue =
\* positionSize / 100 * initialCapital is <= cash, and
\* floor(positionValue / close) >= 1.  The open debits exactly
\* close * quantity and creates a trade with status open, entryDate d,
\* entryPrice close and quantity floor(positionValue / close), where
\* positionValue comes from the initial capital.
C6_OpenTransition ==
    [][ Len(trades') > Len(trades) =>
          LET s == simulationConfig.symbols[j]
              d == allDates[i]
              c == MarkAt(s, d)
              prev == IF i > 1 THEN FindBar(SeriesFor(s), allDates[i - 1]) ELSE None
              scaled == simulationConfig.positionSize * simulationConfig.initialCapital
              new == trades'[Len(trades')]
          IN  /\ pc = "day"
              /\ k > Len(openPositions)
              /\ c # 0
              /\ \/ scannerConfig.conditions = None
                 \/ \A n \in 1 .. Len(Val(scannerConfig.conditions)) :
                       evaluateCondition(Val(scannerConfig.conditions)[n],
                                         Val(FindBar(SeriesFor(s), d)), prev)
              /\ buyConfig.conditions # None
              /\ Len(Val(buyConfig.conditions)) > 0
              /\ \A n \in 1 .. Len(Val(buyConfig.conditions)) :
                    evaluateCondition(Val(buyConfig.conditions)[n],
                                      Val(FindBar(SeriesFor(s), d)), prev)
              /\ scaled <= cash * 100
              /\ scaled \div (100 * c) >= 1
              /\ Len(trades') = Len(trades) + 1
              /\ SubSeq(trades', 1, Len(trades)) = trades
              /\ new.symbol = s
              /\ new.status = "open"
              /\ new.entryDate = d
              /\ new.entryPrice = c
              /\ new.quantity = scaled \div (100 * c)
              /\ new.exitDate = None /\ new.exitPrice = None /\ new.pnl = None
              /\ cash' = cash - c * new.quantity
              /\ positions' = Append(positions, Len(trades'))
              /\ allTrades' = allTrades
      ]_vars

\* A position has just been opened at a moment when cash exceeded the
\* initial capital, so that sizing off cash would have given another
\* position value.
C6_Witness ==
    /\ journal # << >>
    /\ journal[Len(journal)][1] = "open"
    /\ cash + trades[Len(trades)].entryPrice * trades[Len(trades)].quantity
          > simulationConfig.initialCapital

\* C7: if the scanner and buy signals fire for the symbol the buy loop is
\* at but cash is less than the position value, the attempt opens nothing
\* and leaves cash, the open positions and the ledger unchanged.
C7_InsufficientCashSkips ==
    [][ ( /\ pc = "day"
          /\ i <= Len(allDates)
          /\ k > Len(openPositions)
          /\ j <= Len(simulationConfig.symbols)
          /\ BuySignal
          /\ cash * 100 < simulationConfig.positionSize * simulationConfig.initialCapital )
        => /\ cash' = cash
           /\ positions' = positions
           /\ allTrades' = allTrades
           /\ trades' = trades
      ]_vars

\* A buy has just been skipped for lack of cash, with a free slot and some
\* cash left.
C7_Witness ==
    /\ journal # << >>
    /\ journal[Len(journal)][1] = "skipCash"
    /\ cash > 0
    /\ Len(positions) < simulationConfig.maxPositions

\* C8: every trade a run creates, open or closed, at any point of the run,
\* has quantity > 0.
C8_QuantityPositive ==
    \A id \in DOMAIN trades : trades[id].quantity > 0

\* A finished run that opened a position and that also met a bar too
\* expensive for one share.
C8_Witness ==
    /\ pc = "done"
    /\ trades # << >>
    /\ \E n \in 1 .. Len(journal) : journal[n][1] = "skipQuantity"

\* C9: at every point of a run, finalization included, each trade is a
\* member of exactly one of positions and allTrades.
C9_InExactlyOneCollection ==
    \A id \in DOMAIN trades :
        (id \in Range(positions)) # (id \in Range(allTrades))

\* The bar of a symbol's series with the greatest date.
LatestBar(sym) ==
    CHOOSE b \in Range(SeriesFor(sym)) :
        \A other \in Range(SeriesFor(sym)) : other.date <= b.date

\* C10: a position for which no sell condition fires stays open through
\* every simulated day and is closed by finalization only, with exitDate
\* and exitPrice the date and close of the last bar of its own symbol's
\* series.
C10_UnsoldClosedAtOwnLastBar ==
    \A id \in DOMAIN trades :
        "close" \notin JournalKinds(id) =>
            IF pc \in {"metrics", "done"}
            THEN /\ "finalize" \in JournalKinds(id)
                 /\ trades[id].status = "closed"
                 /\ trades[id].exitDate = Some(LatestBar(trades[id].symbol).date)
                 /\ trades[id].exitPrice = Some(LatestBar(trades[id].symbol).close)
            ELSE /\ trades[id].status = "open"
                 /\ trades[id].exitDate = None
                 /\ id \in Range(positions)
                 /\ id \notin Range(allTrades)

\* A finished run with a position that no sell signal closed, whose own
\* series ends after its entry day and before the last day of the global
\* index.
C10_Witness ==
    /\ pc = "done"
    /\ \E id \in DOMAIN trades :
          /\ "close" \notin JournalKinds(id)
          /\ Val(trades[id].exitDate) > trades[id].entryDate
          /\ Val(trades[id].exitDate) < allDates[Len(allDates)]
          /\ Val(trades[id].exitPrice) # trades[id].entryPrice

\* The scanner and buy signals fire today for a configured symbol.
SignalsFire(sym) ==
    /\ currentPriceData(sym) # None
    /\ passesScanner(scannerConfig, Val(currentPriceData(sym)), previousPriceData(sym))
    /\ shouldBuy(buyConfig, Val(currentPriceData(sym)), previousPriceData(sym))

\* The buy loop of a day starts with no position open, maxPositions = 1 and
\* both configured symbols signalling.
BothSignalAtLoopStart ==
    /\ Len(simulationConfig.symbols) = 2
    /\ pc = "day"
    /\ i <= Len(allDates)
    /\ k > Len(openPositions)
    /\ j = 1
    /\ positions = << >>
    /\ simulationConfig.maxPositions = 1
    /\ SignalsFire(simulationConfig.symbols[1])
    /\ SignalsFire(simulationConfig.symbols[2])

\* The position value is covered by cash and buys at least one share of
\* the symbol at today's close.
Affordable(sym) ==
    /\ cash * 100 >= simulationConfig.positionSize * simulationConfig.initialCapital
    /\ (simulationConfig.positionSize * simulationConfig.initialCapital)
          \div (100 * Val(currentPriceData(sym)).close) >= 1

\* The step opens a position in the first configured symbol.
OpensFirstSymbol ==
    /\ Len(trades') = Len(trades) + 1
    /\ trades'[Len(trades')].symbol = simulationConfig.symbols[1]
    /\ trades'[Len(trades')].entryDate = currentDate
    /\ positions' = << Len(trades') >>

\* C11 as stated: with maxPositions = 1, no position open and both symbols
\* signalling on a day, the position opened that day is one in the first
\* configured symbol.
C11_FirstSymbolAlwaysOpened ==
    [][ BothSignalAtLoopStart => OpensFirstSymbol ]_vars

\* C11: with maxPositions = 1, no position open and both symbols signalling
\* on a day on which the first symbol is affordable, exactly one position is
\* opened that day, in the first configured symbol, the second symbol being
\* skipped; symbols are tried in configured order, and once the number of
\* open positions has reached maxPositions the buy loop of the day opens
\* nothing more and the run goes on to the day's equity point.
C11_FirstSymbolOpenedWhenAffordable ==
    /\ [][ (BothSignalAtLoopStart /\ Affordable(simulationConfig.symbols[1]))
              => OpensFirstSymbol ]_vars
    /\ [][ ( /\ pc = "day"
             /\ i <= Len(allDates)
             /\ k > Len(openPositions)
             /\ Len(positions) >= simulationConfig.maxPositions )
           => /\ trades' = trades
              /\ positions' = positions
              /\ cash' = cash
              /\ Len(equityCurve') = Len(equityCurve) + 1
              /\ i' = i + 1 ]_vars
    /\ [][ (pc = "day" /\ i' = i /\ j' # j) => j' = j + 1 ]_vars

\* The first symbol has just been opened with maxPositions = 1 while the
\* second symbol, still to be looked at, signals too.
C11_Witness ==
    /\ Len(simulationConfig.symbols) = 2
    /\ pc = "day"
    /\ i <= Len(allDates)
    /\ j = 2
    /\ simulationConfig.maxPositions = 1
    /\ journal # << >>
    /\ journal[Len(journal)][1] = "open"
    /\ trades[Len(trades)].symbol = simulationConfig.symbols[1]
    /\ positions = << Len(trades) >>
    /\ SignalsFire(simulationConfig.symbols[2])

\* The buy rule set has no conditions: missing, not an array, or empty.
NoBuyConditions ==
    \/ buyConfig.conditions = None
    \/ ~ IsArray(buyConfig.conditions)
    \/ Len(Val(buyConfig.conditions)) = 0

\* C12: if the buy rule set has no conditions (missing, not an array, or
\* empty), shouldBuy is false for every bar of every symbol, the run never
\* opens a position, the ledger is empty and every equity point equals
\* initialCapital.
C12_NoBuyRulesNoTrades ==
    NoBuyConditions =>
        /\ \A s \in { t \in SymbolSet : historicalDataBySymbol[t] # None } :
              \A n \in 1 .. Len(SeriesFor(s)) :
                 /\ ~ shouldBuy(buyConfig, SeriesFor(s)[n], None)
                 /\ \A m \in 1 .. Len(SeriesFor(s)) :
                       ~ shouldBuy(buyConfig, SeriesFor(s)[n], Some(SeriesFor(s)[m]))
        /\ trades = << >>
        /\ positions = << >>
        /\ allTrades = << >>
        /\ cash = simulationConfig.initialCapital
        /\ \A n \in 1 .. Len(equityCurve) :
              equityCurve[n].equity = simulationConfig.initialCapital
        /\ results # None => Val(results).trades = << >>

\* A run with an empty buy rule set has returned, over several days with
\* bars for both symbols.
C12_Witness ==
    /\ results # None
    /\ buyConfig.conditions = Some(<< >>)
    /\ Len(Val(results).equityCurve) >= 2
    /\ \A s \in SymbolSet : Len(SeriesFor(s)) >= 2

\* The dates on which some fetched symbol has a bar.
UnionOfDates ==
    { d \in Days :
        \E s \in SymbolSet :
           /\ historicalDataBySymbol[s] # None
           /\ \E n \in 1 .. Len(SeriesFor(s)) : SeriesFor(s)[n].date = d }

\* Quantity times the close of date d, summed over a set of trades; a trade
\* whose symbol has no bar on d adds 0.
RECURSIVE MarkedValue(_, _)
MarkedValue(ids, d) ==
    IF ids = {} THEN 0
    ELSE LET id == CHOOSE x \in ids : TRUE
         IN  trades[id].quantity * MarkAt(trades[id].symbol, d)
               + MarkedValue(ids \ {id}, d)

\* C13: the run visits each distinct date of the union of the symbols'
\* series exactly once, in ascending order, and appends exactly one equity
\* point per visited date, whose value is cash plus, over the positions open
\* at that moment, quantity times the symbol's close on that date (0 for a
\* position whose symbol has no bar that date); equity points already
\* appended are never modified.
C13_OneEquityPointPerDate ==
    /\ [] ( pc \in {"day", "metrics", "done"} =>
              /\ Range(allDates) = UnionOfDates
              /\ \A a, b \in 1 .. Len(allDates) : a < b => allDates[a] < allDates[b]
              /\ Len(equityCurve) = i - 1
              /\ \A n \in 1 .. Len(equityCurve) : equityCurve[n].date = allDates[n]
              /\ pc # "day" => Len(equityCurve) = Len(allDates) )
    /\ [][ equityCurve' # equityCurve =>
              /\ Len(equityCurve') = Len(equityCurve) + 1
              /\ SubSeq(equityCurve', 1, Len(equityCurve)) = equityCurve
              /\ equityCurve'[Len(equityCurve')].date = allDates[i]
              /\ equityCurve'[Len(equityCurve')].equity =
                    cash + MarkedValue(Range(positions), allDates[i])
              /\ cash' = cash
              /\ positions' = positions ]_vars

\* The equity point of a day has just been appended while one open position
\* has a bar that day and another has none, on a global index with a day on
\* which only one symbol trades.
C13_Witness ==
    /\ pc = "day"
    /\ i > 1
    /\ Len(equityCurve) = i - 1
    /\ k = 1 /\ j = 1
    /\ \E a, b \in Range(positions) :
          /\ MarkAt(trades[a].symbol, allDates[i - 1]) = 0
          /\ MarkAt(trades[b].symbol, allDates[i - 1]) # 0

\* The greatest of initialCapital and the first n equity values of a curve.
RECURSIVE RunningPeak(_, _)
RunningPeak(curve, n) ==
    IF n = 0 THEN simulationConfig.initialCapital
    ELSE IF curve[n].equity > RunningPeak(curve, n - 1)
    THEN curve[n].equity
    ELSE RunningPeak(curve, n - 1)

\* C14: in the returned results the running peak starts at initialCapital,
\* never decreases and is at least the equity of each point, every drawdown
\* is (peak - equity) / peak * 100 >= 0, and metrics.maxDrawdown is the
\* maximum of the drawdown series, 0 when the series is empty.
C14_DrawdownsNonNegative ==
    results # None =>
        LET r == Val(results)
            dd == r.drawdowns
            mx == r.metrics.maxDrawdown
        IN  /\ Len(dd) = Len(r.equityCurve)
            /\ \A n \in 1 .. Len(dd) :
                  /\ dd[n].date = r.equityCurve[n].date
                  /\ dd[n].drawdown.den = RunningPeak(r.equityCurve, n)
                  /\ dd[n].drawdown.den >= RunningPeak(r.equityCurve, n - 1)
                  /\ dd[n].drawdown.den >= r.equityCurve[n].equity
                  /\ dd[n].drawdown.den > 0
                  /\ dd[n].drawdown.num
                        = (dd[n].drawdown.den - r.equityCurve[n].equity) * 100
                  /\ dd[n].drawdown.num >= 0
                  /\ mx.num * dd[n].drawdown.den >= dd[n].drawdown.num * mx.den
            /\ mx.den > 0
            /\ IF dd = << >>
               THEN mx.num = 0
               ELSE \E n \in 1 .. Len(dd) :
                       mx.num * dd[n].drawdown.den = dd[n].drawdown.num * mx.den

\* Returned results whose equity rose above initialCapital and fell back
\* afterwards, giving a positive maximum drawdown.
C14_Witness ==
    /\ results # None
    /\ \E a, b \in 1 .. Len(equityCurve) :
          /\ a < b
          /\ equityCurve[a].equity > simulationConfig.initialCapital
          /\ equityCurve[b].equity < equityCurve[a].equity
          /\ Val(results).drawdowns[b].drawdown.num > 0
          /\ Val(results).metrics.maxDrawdown.num > 0

\* C15: the final equity used for totalPnl is the value of the last equity
\* point whenever the equity curve is non-empty, whatever that value is (0
\* included), and initialCapital only when the curve is empty.
C15_FinalEquityIsLastPoint ==
    results # None =>
        Val(results).totalPnl =
            (IF equityCurve = << >>
             THEN simulationConfig.initialCapital
             ELSE equityCurve[Len(equityCurve)].equity)
            - simulationConfig.initialCapital

\* s is an initial segment of t.
IsPrefix(s, t) == Len(s) <= Len(t) /\ SubSeq(t, 1, Len(s)) = s

InvalidConfig ==
    \/ simulationConfig.initialCapital <= 0
    \/ Len(simulationConfig.symbols) = 0
    \/ simulationConfig.positionSize <= 0
    \/ simulationConfig.positionSize > 100

\* C17: a run whose configuration has initialCapital <= 0, no symbol, or
\* positionSize outside (0, 100] is rejected before the first day: it never
\* simulates a day and never returns results.
C17_InvalidConfigRejected ==
    InvalidConfig => (equityCurve = << >> /\ results = None)

\* A fetch of the run has failed.
FetchFailed == \E n \in 1 .. Len(journal) : journal[n][1] = "fetchError"

\* C18: if fetching the series of a configured symbol fails, the run fails
\* as a whole, once: runSimulation rejects, no day is simulated, no results
\* are produced, the failed fetch is not retried and no later symbol is
\* fetched.
C18_FetchFailureIsTerminal ==
    FetchFailed =>
        /\ pc = "rejected"
        /\ journal = << << "fetchError", 0, 0 >> >>
        /\ results = None
        /\ allDates = << >>
        /\ equityCurve = << >>
        /\ trades = << >>
        /\ cash = simulationConfig.initialCapital
        /\ fetched < Len(simulationConfig.symbols)
        /\ \A n \in fetched + 1 .. Len(simulationConfig.symbols) :
              historicalDataBySymbol[simulationConfig.symbols[n]] = None

\* The fetch of the second symbol has failed after the first symbol's
\* series, with bars, had been fetched.
C18_Witness ==
    /\ FetchFailed
    /\ fetched = 1
    /\ Len(SeriesFor(simulationConfig.symbols[1])) >= 2

\* The symbol has a bar on the date.
HasBar(sym, d) == \E n \in 1 .. Len(SeriesFor(sym)) : SeriesFor(sym)[n].date = d

\* C19: on a day for which a symbol has no bar the run raises no error and
\* the symbol is skipped: none of its open positions is sold or changed, no
\* position is opened in it, and its open positions add nothing to that
\* day's equity point.
C19_NoBarSymbolSkipped ==
    /\ [] ( \A n \in 1 .. Len(journal) :
               journal[n][1] \in {"close", "open"} =>
                   HasBar(trades[journal[n][3]].symbol, journal[n][2]) )
    /\ [][ ( /\ InSellLoop
             /\ ~ HasBar(position.symbol, currentDate) )
           => /\ trades' = trades
              /\ positions' = positions
              /\ allTrades' = allTrades
              /\ cash' = cash
              /\ pc' = "day" ]_vars
    /\ [][ ( /\ BuyAt
             /\ ~ HasBar(symbol, currentDate) )
           => /\ trades' = trades
              /\ positions' = positions
              /\ allTrades' = allTrades
              /\ cash' = cash
              /\ pc' = "day" ]_vars
    /\ [][ equityCurve' # equityCurve =>
              equityCurve'[Len(equityCurve')].equity =
                 cash + MarkedValue({ id \in Range(positions) :
                                        HasBar(trades[id].symbol, currentDate) },
                                    currentDate) ]_vars

\* A day on which the first configured symbol has no bar: the sell loop has
\* passed over an open position in it and the buy loop has passed over the
\* symbol.
C19_Witness ==
    /\ pc = "day"
    /\ i <= Len(allDates)
    /\ k > Len(openPositions)
    /\ j = 2
    /\ ~ HasBar(simulationConfig.symbols[1], currentDate)
    /\ \E n \in 1 .. Len(openPositions) :
          /\ trades[openPositions[n]].symbol = simulationConfig.symbols[1]
          /\ trades[openPositions[n]].status = "open"

\* The malformed conditions of an optional conditions array.
MalformedOf(config) ==
    IF config.conditions = None THEN {}
    ELSE IF ~ IsArray(config.conditions) THEN {}
    ELSE Range(Val(config.conditions)) \cap MalformedConditions

\* The bars of the fetched series, and the optional previous bars.
FetchedBars ==
    UNION { Range(SeriesFor(s)) : s \in { t \in SymbolSet : historicalDataBySymbol[t] # None } }
OptionalBars == { None } \cup { Some(b) : b \in FetchedBars }

\* C20: a malformed or unrecognized condition placed in the scanner, buy or
\* sell rule set never makes evaluation raise and evaluates to false, so it
\* never by itself causes a position to be opened or closed.
C20_MalformedConditionsFailClosed ==
    /\ pc = "rejected" => FetchFailed
    /\ \A n \in 1 .. Len(journal) : journal[n][1] # "sellError"
    /\ \A c \in MalformedOf(scannerConfig) \cup MalformedOf(buyConfig)
                  \cup MalformedOf(sellConfig) :
          \A b \in FetchedBars, p \in OptionalBars :
             /\ ~ evaluateCondition(c, b, p)
             /\ \A id \in DOMAIN trades : ~ SellConditionMet(c, b, p, trades[id])
    /\ MalformedOf(scannerConfig) \cup MalformedOf(buyConfig) # {} =>
          trades = << >>
    /\ ( /\ MalformedOf(sellConfig) # {}
         /\ MalformedOf(sellConfig) = Range(Val(sellConfig.conditions)) )
       => \A n \in 1 .. Len(journal) : journal[n][1] # "close"

\* Sell rule sets without conditions: missing, not an array, empty.
NoSellConfigs ==
    { [conditions |-> None], [conditions |-> NotArray], [conditions |-> Some(<< >>)] }

\* A condition of a sell rule set fires for a position at a bar: stopLoss
\* when the percentage move since entry is <= -value, takeProfit when it is
\* >= value, any other condition by the indicator / operator path.
ConditionFires(c, bar, prev, trade) ==
    CASE c.type = "stopLoss" ->
            (bar.close - trade.entryPrice) * 100 <= (0 - Val(c.value)) * trade.entryPrice
      [] c.type = "takeProfit" ->
            (bar.close - trade.entryPrice) * 100 >= Val(c.value) * trade.entryPrice
      [] OTHER -> evaluateCondition(c, bar, prev)

ScenarioB ==
    /\ Len(simulationConfig.symbols) = 1
    /\ pc \in {"day", "metrics", "done"}
    /\ LET s == SeriesFor(simulationConfig.symbols[1])
           sell == Val(sellConfig.conditions)
       IN  /\ Len(s) = 3
           /\ passesScanner(scannerConfig, s[1], None)
           /\ shouldBuy(buyConfig, s[1], None)
           /\ ~ shouldBuy(buyConfig, s[2], Some(s[1]))
           /\ ~ shouldBuy(buyConfig, s[3], Some(s[2]))
           /\ Len(sell) = 1
           /\ sell[1].type = "takeProfit"
           /\ (s[2].close - s[1].close) * 100 >= Val(sell[1].value) * s[1].close

\* C23: in scenario B the run returns exactly one ledger trade, entered on
\* day 1, exited on day 2, with pnl > 0.  In every run a sell signal closes
\* a position on a day strictly after its entry day, never on the entry day
\* itself, and every ledger trade has exitDate >= entryDate.
C23_SellNotOnEntryDay ==
    /\ [] ( (ScenarioB /\ results # None) =>
              LET s == SeriesFor(simulationConfig.symbols[1])
                  ledger == Val(results).trades
              IN  /\ Len(ledger) = 1
                  /\ ledger[1].entryDate = s[1].date
                  /\ ledger[1].exitDate = Some(s[2].date)
                  /\ Val(ledger[1].pnl) > 0 )
    /\ [] ( \A n \in 1 .. Len(allTrades) :
               /\ trades[allTrades[n]].exitDate # None
               /\ Val(trades[allTrades[n]].exitDate) >= trades[allTrades[n]].entryDate )
    /\ [] ( \A n \in 1 .. Len(journal) :
               journal[n][1] = "close" =>
                  /\ trades[journal[n][3]].entryDate < journal[n][2]
                  /\ trades[journal[n][3]].exitDate = Some(journal[n][2]) )
    /\ [][ \A id \in DOMAIN trades :
              ( /\ pc = "day"
                /\ i <= Len(allDates)
                /\ trades[id].status = "open"
                /\ trades'[id].status = "closed" )
              => trades[id].entryDate < currentDate ]_vars

\* A scenario B run has returned.
C23_Witness ==
    /\ ScenarioB
    /\ results # None
    /\ Len(allDates) = 3

\* The priceChange conditions of an optional conditions array.
PriceChangeConditions(config) ==
    IF config.conditions = None THEN {}
    ELSE IF ~ IsArray(config.conditions) THEN {}
    ELSE { c \in Range(Val(config.conditions)) : c.indicator = "priceChange" }

\* What a priceChange condition is for a symbol with a bar today: false on
\* the first day of the global index and when the symbol has no bar on the
\* preceding date of the global index, else the comparison of the
\* percentage move from that bar's close to today's.
PriceChangeHolds(c, sym) ==
    IF i = 1 THEN FALSE
    ELSE IF ~ HasBar(sym, allDates[i - 1]) THEN FALSE
    ELSE Compare(c.operator,
                 [num |-> (MarkAt(sym, currentDate) - MarkAt(sym, allDates[i - 1])) * 100,
                  den |-> MarkAt(sym, allDates[i - 1])],
                 Val(c.value))

\* C24: a priceChange condition for a symbol on a day is computed from the
\* symbol's bar on the immediately preceding date of the global day index;
\* it is false on the first day of the index and on a day for which the
\* symbol has no bar on that preceding date, earlier bars of its own series
\* notwithstanding.  A buy rule set (or sell rule set) made of one
\* priceChange condition opens (closes) a position exactly on that basis.
C24_PriceChangeFromPrecedingGlobalDate ==
    /\ [][ (BuyAt /\ HasBar(symbol, currentDate)) =>
              /\ \A c \in PriceChangeConditions(scannerConfig)
                            \cup PriceChangeConditions(buyConfig) :
                    evaluateCondition(c, Val(currentPriceData(symbol)),
                                      previousPriceData(symbol))
                       = PriceChangeHolds(c, symbol)
              /\ \A c \in PriceChangeConditions(buyConfig) :
                    Len(trades') > Len(trades) => PriceChangeHolds(c, symbol) ]_vars
    /\ [][ (InSellLoop /\ position.status = "open"
              /\ HasBar(position.symbol, currentDate)) =>
              /\ \A c \in PriceChangeConditions(sellConfig) :
                    evaluateCondition(c, Val(currentPriceData(position.symbol)),
                                      previousPriceData(position.symbol))
                       = PriceChangeHolds(c, position.symbol)
              /\ sellConfig.conditions = Some(<< IndicatorRule("priceChange", "<", 0) >>)
                    => (trades'[openPositions[k]].status = "closed")
                          = PriceChangeHolds(IndicatorRule("priceChange", "<", 0),
                                             position.symbol) ]_vars

\* Under the priceChange buy rule, on the third day of the index, the buy
\* loop has passed over the first symbol without opening a position: its
\* close is below the close of its own previous bar, but it has no bar on
\* the preceding day of the index.
C24_Witness ==
    /\ PriceChangeConditions(buyConfig) # {}
    /\ pc = "day"
    /\ i = 3
    /\ Len(allDates) = 3
    /\ k > Len(openPositions)
    /\ j = 2
    /\ trades = << >>
    /\ HasBar(simulationConfig.symbols[1], allDates[3])
    /\ ~ HasBar(simulationConfig.symbols[1], allDates[2])
    /\ HasBar(simulationConfig.symbols[1], allDates[1])
    /\ MarkAt(simulationConfig.symbols[1], allDates[3])
          < MarkAt(simulationConfig.symbols[1], allDates[1])

\* The trades a sell signal closed on date d, and what their sale brought in.
ClosedOn(d) ==
    { journal[n][3] : n \in { m \in 1 .. Len(journal) :
                                 journal[m][1] = "close" /\ journal[m][2] = d } }
RECURSIVE Proceeds(_)
Proceeds(ids) ==
    IF ids = {} THEN 0
    ELSE LET id == CHOOSE x \in ids : TRUE
         IN  Val(trades[id].exitPrice) * trades[id].quantity + Proceeds(ids \ {id})

\* The trades with status open.
OpenTrades == { id \in DOMAIN trades : trades[id].status = "open" }

\* The buy loop of a day is at a symbol (the sell loop of the day is over).
InBuyLoop ==
    /\ pc = "day"
    /\ i <= Len(allDates)
    /\ k > Len(openPositions)
    /\ j <= Len(simulationConfig.symbols)

\* C25: the closes of a day are applied before its opens, so the cash they
\* credit and the slots they free are available to the opens of the same
\* day: in the buy loop no trade closed that day is among the positions
\* counted against maxPositions, and a symbol whose signals fire is bought
\* whenever the open trades are fewer than maxPositions and cash, that day's
\* exit proceeds included, covers the position value and one share; this
\* also holds for the symbol of a position closed that same day.
C25_SameDayProceedsAvailable ==
    /\ [] ( InBuyLoop =>
              /\ Range(positions) = OpenTrades
              /\ ClosedOn(currentDate) \cap Range(positions) = {}
              /\ \A id \in ClosedOn(currentDate) : trades[id].status = "closed" )
    /\ [][ \A n \in 1 .. Len(journal') :
              (n > Len(journal) /\ journal'[n][1] = "close") =>
                 cash' = cash + Val(trades'[journal'[n][3]].exitPrice)
                                  * trades'[journal'[n][3]].quantity ]_vars
    /\ [][ ( /\ InBuyLoop
             /\ SignalsFire(symbol)
             /\ Cardinality(OpenTrades) < simulationConfig.maxPositions
             /\ Affordable(symbol) )
           => /\ Len(trades') = Len(trades) + 1
              /\ trades'[Len(trades')].symbol = symbol
              /\ trades'[Len(trades')].entryDate = currentDate
              /\ cash' = cash - trades'[Len(trades')].entryPrice
                                  * trades'[Len(trades')].quantity
              /\ cash' >= 0 ]_vars

\* A position has just been opened in the symbol of a position closed the
\* same day, with maxPositions already reached before that close and cash
\* that would not have covered the position value without the proceeds.
C25_Witness ==
    /\ pc = "day"
    /\ i <= Len(allDates)
    /\ journal # << >>
    /\ journal[Len(journal)][1] = "open"
    /\ \E id \in ClosedOn(currentDate) :
          /\ trades[id].symbol = trades[Len(trades)].symbol
          /\ trades[Len(trades)].entryDate = currentDate
          /\ Cardinality(OpenTrades) - 1 + Cardinality(ClosedOn(currentDate))
                >= simulationConfig.maxPositions
          /\ ( cash + trades[Len(trades)].entryPrice * trades[Len(trades)].quantity
                 - Proceeds(ClosedOn(currentDate)) ) * 100
                < simulationConfig.positionSize * simulationConfig.initialCapital

\* entryPrice * quantity of a trade.
Cost(trade) == trade.entryPrice * trade.quantity

\* C26: with initialCapital > 0, positionSize in (0, 100], maxPositions >= 1
\* and strictly positive closes, cash is >= 0 in every state of a run, and
\* the cost entryPrice * quantity of every opened position is at most
\* positionValue = positionSize / 100 * initialCapital, which cash covered
\* at the moment of the open.
C26_CashNeverNegative ==
    /\ [] ( cash >= 0 )
    /\ [] ( \A id \in DOMAIN trades :
               Cost(trades[id]) * 100
                  <= simulationConfig.positionSize * simulationConfig.initialCapital )
    /\ [][ Len(trades') > Len(trades) =>
              /\ cash' = cash - Cost(trades'[Len(trades')])
              /\ Cost(trades'[Len(trades')]) * 100
                    <= simulationConfig.positionSize * simulationConfig.initialCapital
              /\ simulationConfig.positionSize * simulationConfig.initialCapital
                    <= cash * 100 ]_vars

\* The open of a second position has just brought cash down to exactly 0.
C26_Witness ==
    /\ journal # << >>
    /\ journal[Len(journal)][1] = "open"
    /\ cash = 0
    /\ Len(positions) = 2

\* entryPrice * quantity summed over a set of trades.
RECURSIVE CostOf(_)
CostOf(ids) ==
    IF ids = {} THEN 0
    ELSE LET id == CHOOSE x \in ids : TRUE
         IN  Cost(trades[id]) + CostOf(ids \ {id})

\* C28: throughout the day loop (after every close, every open and at the
\* end of every day) cash plus the cost of the open positions equals
\* initialCapital plus the pnl of the ledger trades; cash changes only by
\* the debit entryPrice * quantity of an open and the credit
\* exitPrice * quantity of a close.
C28_MoneyConserved ==
    /\ [] ( pc = "day" =>
              cash + CostOf(Range(positions))
                 = simulationConfig.initialCapital + SumPnl(Ledger) )
    /\ [][ cash' # cash =>
              \/ /\ Len(trades') = Len(trades) + 1
                 /\ positions' = Append(positions, Len(trades'))
                 /\ allTrades' = allTrades
                 /\ cash' = cash - Cost(trades'[Len(trades')])
              \/ /\ Len(trades') = Len(trades)
                 /\ Len(allTrades') = Len(allTrades) + 1
                 /\ allTrades'[Len(allTrades')] \in Range(positions)
                 /\ allTrades'[Len(allTrades')] \notin Range(positions')
                 /\ cash' = cash + Val(trades'[allTrades'[Len(allTrades')]].exitPrice)
                                     * trades'[allTrades'[Len(allTrades')]].quantity ]_vars
    /\ [][ cash' = cash =>
              ( (pc = "day" /\ i <= Len(allDates))
                  => (positions' = positions /\ allTrades' = allTrades) ) ]_vars

\* The end of a day on which a position was closed at a profit and another
\* opened, with a position open and a non-empty ledger.
C28_Witness ==
    /\ pc = "day"
    /\ i > 1
    /\ k = 1 /\ j = 1
    /\ Len(equityCurve) = i - 1
    /\ positions # << >>
    /\ SumPnl(Ledger) > 0
    /\ ClosedOn(allDates[i - 1]) # {}
    /\ \E id \in Range(positions) : trades[id].entryDate = allDates[i - 1]

\* The open positions in a symbol.
OpenIn(sym) == { id \in Range(positions) : trades[id].symbol = sym }

\* C29: the open transition does not look at whether the symbol already has
\* an open position: when the signals of a symbol fire on a day with a slot
\* free and cash covering the position value, a position is opened in it
\* next to the one it already has; each open position of a symbol is
\* evaluated for sale on its own entry price and closed on its own, the
\* others being left as they are.
C29_SameSymbolPositionsCoexist ==
    /\ [][ ( /\ InBuyLoop
             /\ SignalsFire(symbol)
             /\ Len(positions) < simulationConfig.maxPositions
             /\ Affordable(symbol)
             /\ OpenIn(symbol) # {} )
           => /\ Len(trades') = Len(trades) + 1
              /\ trades'[Len(trades')].symbol = symbol
              /\ positions' = Append(positions, Len(trades'))
              /\ \A id \in OpenIn(symbol) : trades'[id] = trades[id] ]_vars
    /\ [][ ( /\ InSellLoop
             /\ position.status = "open"
             /\ HasBar(position.symbol, currentDate) )
           => LET id == openPositions[k]
                  bar == Val(currentPriceData(position.symbol))
                  prev == previousPriceData(position.symbol)
                  conds == Val(sellConfig.conditions)
              IN  /\ (trades'[id].status = "closed")
                        = \E n \in 1 .. Len(conds) :
                             ConditionFires(conds[n], bar, prev, position)
                  /\ trades'[id].status = "closed" =>
                        trades'[id].pnl
                           = Some((bar.close - trades[id].entryPrice) * trades[id].quantity)
                  /\ \A o \in DOMAIN trades : o # id => trades'[o] = trades[o]
                  /\ \A o \in Range(positions) : o # id => o \in Range(positions') ]_vars

\* Two positions of the same symbol with different entry prices were open
\* together; a sell signal has just closed one of them and left the other
\* open.
C29_Witness ==
    /\ pc = "day"
    /\ journal # << >>
    /\ journal[Len(journal)][1] = "close"
    /\ \E a \in DOMAIN trades, b \in Range(positions) :
          /\ a = journal[Len(journal)][3]
          /\ trades[a].symbol = trades[b].symbol
          /\ trades[a].entryPrice # trades[b].entryPrice
          /\ trades[b].status = "open"
          /\ trades[b].entryDate < journal[Len(journal)][2]
          /\ trades[a].entryDate < journal[Len(journal)][2]

\* C21: two calls of runSimulation interleaved at their awaits share no
\* portfolio state: a step of one call leaves the other's cash, positions,
\* ledger and equity curve as they are, a switch hands each call exactly
\* the state it was suspended with, and each call returns what it returns
\* when run alone on the series it fetched.
C21_ConcurrentRunsIndependent ==
    /\ [] ( (suspended # None /\ firstRun # None) =>
              /\ IsPrefix(journal, Val(firstRun).journal)
              /\ IsPrefix(equityCurve, Val(firstRun).results.equityCurve)
              /\ pc \in {"metrics", "done"} =>
                    /\ journal = Val(firstRun).journal
                    /\ cash = Val(firstRun).cash
                    /\ trades = Val(firstRun).trades
                    /\ positions = Val(firstRun).positions
                    /\ allTrades = Val(firstRun).allTrades
                    /\ equityCurve = Val(firstRun).results.equityCurve
              /\ results # None => Val(results) = Val(firstRun).results )
    /\ [][ (suspended # None /\ suspended' # suspended) =>
              /\ Val(suspended') = Context
              /\ Context' = Val(suspended) ]_vars
    /\ [][ (suspended # None /\ suspended' = suspended) =>
              strategy' = strategy ]_vars

\* Both calls fetched their series before either went on, each made trades
\* on its own series, and the one in the foreground has been run again alone
\* and has returned.
C21_Witness ==
    /\ suspended # None
    /\ firstRun # None
    /\ results # None
    /\ Val(suspended).results # None
    /\ Val(suspended).historicalDataBySymbol # historicalDataBySymbol
    /\ Len(Val(suspended).allTrades) >= 1
    /\ Len(allTrades) >= 2
    /\ Val(suspended).journal[1][1] = "open"
    /\ journal[1][1] = "open"

\* C30: whenever the stored strategy has status 'completed', its stored
\* results were returned by a run called with the configuration that is
\* stored now.
C30_CompletedResultsMatchConfig ==
    (db # None /\ Val(db).status = "completed") =>
        /\ Val(db).results # None
        /\ Val(Val(db).results).of = Val(db).config

\* The handlers of POST /:id/simulate there are: the one in the foreground
\* and the suspended one, if any.
Handlers ==
    { c \in {Context} \cup (IF suspended = None THEN {} ELSE {Val(suspended)}) :
        c.route # None }

\* The handler has called runSimulation and the run has not settled.
RunUnsettled(c) ==
    /\ Val(c.route).at = "running"
    /\ c.pc \notin {"done", "rejected"}

\* C27: after an accepted POST /:id/simulate the stored status is
\* 'in_progress' from before the run starts until the run settles; when the
\* run resolves the strategy is stored with status 'completed' and the
\* run's results, when it rejects the status is set back to 'saved'; the
\* status is not left 'in_progress' once every run has settled and been
\* stored; and the 202 response is sent without waiting for the run.
C27_StatusFollowsRun ==
    /\ [] ( \A c \in Handlers :
              /\ (Val(c.route).at = "saved" \/ RunUnsettled(c)) =>
                    Val(db).status = "in_progress"
              /\ Val(c.route).at \in {"running", "finished"} =>
                    Val(c.route).response = Some(202) )
    /\ [] ( (Handlers # {} /\ \A c \in Handlers : Val(c.route).at = "finished") =>
              Val(db).status # "in_progress" )
    /\ [][ (route # None /\ route' # None /\ suspended' = suspended
            /\ Val(route).at = "running" /\ Val(route').at = "finished") =>
              IF pc = "done"
              THEN /\ Val(db').status = "completed"
                   /\ Val(db').results # None
                   /\ Val(Val(db').results).value = Val(results)
              ELSE /\ pc = "rejected"
                   /\ Val(db').status = "saved" ]_vars
    /\ [][ (route # None /\ route' # None /\ suspended' = suspended
            /\ Val(route).response = None /\ Val(route').response # None) =>
              /\ pc' = "fetch"
              /\ results' = None ]_vars

====
